---- MODULE Spec2Model ----
(***************************************************************************)
(* Model of the authenticated network client of auth_lib                   *)
(* (src/src/hooks/useFirebaseAuthNetworkClient.ts).                        *)
(*                                                                         *)
(* Every logical request is one asynchronous task running                  *)
(* executeWithRetry.  A task is suspended at each await on an external     *)
(* collaborator (user.getIdToken, network.request, signOut) or on the body  *)
(* of a Response (response.json()); the code                                *)
(* between two such awaits runs as one step.  Strings are sequences: the   *)
(* empty string '' is << >>, a provider token is << n >>.                  *)
(***************************************************************************)
EXTENDS Integers, Sequences, FiniteSets, TLC

\* ------------------------------------------------------------------ bounds
NumRequests == 2
MaxToken == 2
MaxTicks == 3

\* --------------------------------------------------------------- constants
CustomToken == 0
StatusOK == 200
StatusUnauthorized == 401
StatusForbidden == 403
StatusServerError == 500
\* The tests' token lifetime (5 minutes) and clock step (2 minutes), in ms.
TTL == 300000
TickMs == 120000

Requests == 1..NumRequests

\* The token strings user.getIdToken can resolve to.
ProviderTokens == { <<n>> : n \in 1..MaxToken }

\* '' : what getAuthToken returns when there is no user or the provider fails.
EmptyString == << >>

\* The status codes the wrapped transport answers with.
Statuses == {StatusOK, StatusUnauthorized, StatusForbidden, StatusServerError}

\* What getFirebaseAuth() returns: null, an auth whose currentUser is null,
\* or an auth with a signed-in user.
AuthStates == {"null", "noUser", "user"}

VARIABLES
    auth,          \* what getFirebaseAuth() returns now
    options,       \* options[r]: the options of the client r is issued on
    pc,            \* pc[r]: where request r's task is suspended
    requestInit,   \* requestInit[r]: the caller's Authorization header value
    sent,          \* sent[r]: Authorization header of each network.request call
    response,      \* response[r]: the first attempt's Response
    result,        \* result[r]: what the caller's promise settled with
    parsing,       \* parsing[r]: the Response handed to parseResponse
    getIdTokenCalls, \* getIdTokenCalls[r]: forceRefresh of each getIdToken call
    inFlight,      \* the getIdToken promises that have not settled yet
    tokens,        \* tokens[r]: what getAuthToken(false) returned to r
    freshTokens,   \* freshTokens[r]: what getAuthToken(true) returned to r
    signOutCalls,  \* signOutCalls[r]: calls of signOut(auth) made for r
    signOutResults, \* signOutResults[r]: TRUE for each signOut that resolved
    onLogoutCalls, \* onLogoutCalls[r]: invocations of options.onLogout
    onTokenRefreshFailedCalls, \* arguments of options.onTokenRefreshFailed
    now,           \* the clock (Date.now()), in ms
    issuedAt,      \* issuedAt[r]: the clock when request r was issued
    fetchedAt,     \* fetchedAt[r]: the clock when r's getIdToken(false) resolved
    abortedIn,     \* abortedIn[r]: where r was when its signal was aborted
    variant,       \* which firebase-init module is loaded
    currentUserRN, \* whether @react-native-firebase/auth has a currentUser
    firebaseApp,   \* firebase-init's singleton app (0 is null)
    firebaseAuth,  \* firebase-init's singleton auth (0 is null)
    firebaseConfig, \* firebase-init's stored config
    apps,          \* the Firebase SDK's registry: what getApps() returns
    initializeAppCalls, \* calls of initializeApp(config)
    getAuthCalls,  \* calls of getAuth(app)
    listeners,     \* registrations made with onAuthStateChanged
    initLog,       \* one record per initializeFirebaseAuth call
    initialized,   \* the React Native module's `initialized` flag
    available      \* the @react-native-firebase modules that can be loaded

vars == <<auth, options, pc, requestInit, sent, response, result, parsing,
          getIdTokenCalls, inFlight, tokens, freshTokens, signOutCalls,
          signOutResults, onLogoutCalls, onTokenRefreshFailedCalls,
          now, issuedAt, fetchedAt, abortedIn,
          variant, currentUserRN, firebaseApp, firebaseAuth, firebaseConfig, apps,
          initializeAppCalls, getAuthCalls, listeners, initLog,
          initialized, available>>

\* The module state of firebase-init and of the Firebase SDK behind it.
initVars == <<variant, currentUserRN, firebaseApp, firebaseAuth, firebaseConfig, apps,
              initializeAppCalls, getAuthCalls, listeners, initLog,
              initialized, available>>

\* What the steps of a request leave alone.
sideVars == <<abortedIn, initVars>>

\* ----------------------------------------------------------- pure helpers

\* `Bearer ${token}`
Bearer(token) == <<"Bearer">> \o token

\* The header a caller may pass itself (Authorization: 'Bearer custom-token').
CallerHeaders == { EmptyString, Bearer(<<CustomToken>>) }

\* A Response of the transport: ok is the Response's own flag (status 2xx);
\* attempt tells which network.request call produced the object.
Response(status, attempt) ==
    [kind |-> "response", status |-> status,
     ok |-> (status >= 200 /\ status <= 299), attempt |-> attempt]

NoResponse == [kind |-> "none", status |-> 0, ok |-> FALSE, attempt |-> 0]

\* A rejection of network.request (no status-coded Response).
TransportFailure(attempt) ==
    [kind |-> "failure", status |-> 0, ok |-> FALSE, success |-> FALSE,
     attempt |-> attempt]

NoResult ==
    [kind |-> "none", status |-> 0, ok |-> FALSE, success |-> FALSE,
     attempt |-> 0]

parseResponseAlwaysOk(resp) ==
    [kind |-> "response", status |-> resp.status, ok |-> TRUE,
     success |-> TRUE, attempt |-> resp.attempt]

\* parseResponse: copies ok and status, success is ok, data is the body of
\* the Response object it was given.
parseResponse(resp) ==
    [kind |-> "response", status |-> resp.status, ok |-> resp.ok,
     success |-> resp.ok, attempt |-> resp.attempt]

NeedsTokenAlways(headers) == TRUE

\* injectAuthToken's test: !headers['Authorization']
NeedsToken(headers) == headers = EmptyString

injectAuthTokenAlways(headers, token) ==
    IF NeedsToken(headers) THEN Bearer(token) ELSE headers

\* injectAuthToken's result: the Authorization header of the first attempt.
injectAuthToken(headers, token) ==
    IF NeedsToken(headers) /\ token # EmptyString
    THEN Bearer(token)
    ELSE headers

retryHeadersCallerWins(headers, freshToken) ==
    IF headers # EmptyString THEN headers ELSE Bearer(freshToken)

retryHeadersKept(headers, freshToken) == headers

\* retryHeaders: { ...requestInit.headers, Authorization: `Bearer ${fresh}` }
retryHeaders(headers, freshToken) == Bearer(freshToken)

\* getAuthToken's guard: auth?.currentUser
HasUser == auth = "user"

HasAuthUnchecked == TRUE

\* logoutUser's guard: if (!auth) return
HasAuth == auth # "null"

IsUnauthorizedOrForbidden(status) ==
    status \in {StatusUnauthorized, StatusForbidden}

IsNotOk(status) == status >= 400

\* response.status === 401
IsUnauthorized(status) == status = StatusUnauthorized

IsForbiddenOrAbove(status) == status >= StatusForbidden

\* response.status === 403
IsForbidden(status) == status = StatusForbidden

\* A pending user.getIdToken(forceRefresh) promise awaited by request r.
Fetch(r, forceRefresh) == [request |-> r, forceRefresh |-> forceRefresh]

CallGetIdTokenCachedFailure(r, forceRefresh) ==
    IF /\ ~forceRefresh
       /\ \E q \in Requests \ {r} :
            getIdTokenCalls[q] # << >> /\ tokens[q] = <<EmptyString>>
    THEN UNCHANGED <<getIdTokenCalls, inFlight>>
    ELSE /\ getIdTokenCalls' =
                [getIdTokenCalls EXCEPT ![r] = Append(@, forceRefresh)]
         /\ inFlight' = inFlight \cup {Fetch(r, forceRefresh)}

CallGetIdTokenShared(r, forceRefresh) ==
    IF inFlight # {}
    THEN UNCHANGED <<getIdTokenCalls, inFlight>>
    ELSE /\ getIdTokenCalls' =
                [getIdTokenCalls EXCEPT ![r] = Append(@, forceRefresh)]
         /\ inFlight' = inFlight \cup {Fetch(r, forceRefresh)}

CallGetIdTokenSharedInitial(r, forceRefresh) ==
    IF ~forceRefresh /\ \E f \in inFlight : ~f.forceRefresh
    THEN UNCHANGED <<getIdTokenCalls, inFlight>>
    ELSE /\ getIdTokenCalls' =
                [getIdTokenCalls EXCEPT ![r] = Append(@, forceRefresh)]
         /\ inFlight' = inFlight \cup {Fetch(r, forceRefresh)}

CallGetIdTokenSharedForced(r, forceRefresh) ==
    IF forceRefresh /\ \E f \in inFlight : f.forceRefresh
    THEN UNCHANGED <<getIdTokenCalls, inFlight>>
    ELSE /\ getIdTokenCalls' =
                [getIdTokenCalls EXCEPT ![r] = Append(@, forceRefresh)]
         /\ inFlight' = inFlight \cup {Fetch(r, forceRefresh)}

CallGetIdTokenForcedJoins(r, forceRefresh) ==
    IF forceRefresh /\ inFlight # {}
    THEN UNCHANGED <<getIdTokenCalls, inFlight>>
    ELSE /\ getIdTokenCalls' =
                [getIdTokenCalls EXCEPT ![r] = Append(@, forceRefresh)]
         /\ inFlight' = inFlight \cup {Fetch(r, forceRefresh)}

\* getAuthToken with a user: `await user.getIdToken(forceRefresh)` is called,
\* whatever other calls are pending.
CallGetIdToken(r, forceRefresh) ==
    /\ getIdTokenCalls' = [getIdTokenCalls EXCEPT ![r] = Append(@, forceRefresh)]
    /\ inFlight' = inFlight \cup {Fetch(r, forceRefresh)}

NotifyRefreshFailedNever(r) ==
    onTokenRefreshFailedCalls' = onTokenRefreshFailedCalls

\* options?.onTokenRefreshFailed?.(new Error('Failed to refresh token'))
NotifyRefreshFailed(r) ==
    onTokenRefreshFailedCalls' =
        [onTokenRefreshFailedCalls EXCEPT ![r] =
            IF options[r].onTokenRefreshFailed THEN Append(@, "Error") ELSE @]

NotifyLogoutOnce(r) ==
    onLogoutCalls' =
        [onLogoutCalls EXCEPT ![r] =
            IF options[r].onLogout /\ \A q \in Requests : onLogoutCalls[q] = 0
            THEN @ + 1 ELSE @]

NotifyLogoutTwice(r) ==
    onLogoutCalls' = [onLogoutCalls EXCEPT ![r] = @ + 2]

\* onLogout?.()
NotifyLogout(r) ==
    onLogoutCalls' =
        [onLogoutCalls EXCEPT ![r] = IF options[r].onLogout THEN @ + 1 ELSE @]

AfterSignOutFinally(r, ok) == NotifyLogout(r)

\* logoutUser's try block: onLogout runs only after `await signOut(auth)`
\* resolved; a rejection goes to the catch, which only logs.
AfterSignOut(r, ok) ==
    IF ok THEN NotifyLogout(r) ELSE UNCHANGED onLogoutCalls

\* `return ...`: the caller's promise settles with value.
Return(r, value) ==
    /\ result' = [result EXCEPT ![r] = value]
    /\ pc' = [pc EXCEPT ![r] = "done"]
    /\ UNCHANGED parsing

\* `return parseResponse(resp)`: parseResponse is handed the Response.  When
\* its content type is JSON the task is suspended at `await response.json()`
\* until the body has been read; otherwise the NetworkResponse is built and
\* returned at once.
ReturnParsed(r, resp) ==
    /\ parsing' = [parsing EXCEPT ![r] = resp]
    /\ \E json \in BOOLEAN :
        IF json
        THEN /\ pc' = [pc EXCEPT ![r] = "parse"]
             /\ UNCHANGED result
        ELSE /\ result' = [result EXCEPT ![r] = parseResponse(resp)]
             /\ pc' = [pc EXCEPT ![r] = "done"]

SignalForwardedFirstOnly(attempt) == attempt = 1

\* requestInit.signal travels with the first network.request (authedInit is
\* `{...requestInit, headers}`) and with the retry (`{...requestInit, headers:
\* retryHeaders}`).
SignalForwarded(attempt) == attempt \in {1, 2}

\* network.request was handed, or holds, a signal that is aborted: the
\* transport rejects the call instead of answering it.
Aborted(r, attempt) == SignalForwarded(attempt) /\ abortedIn[r] # "none"

\* network.request(url, init) is called with this Authorization header.
CallTransport(r, header, next) ==
    /\ sent' = [sent EXCEPT ![r] = Append(@, header)]
    /\ pc' = [pc EXCEPT ![r] = next]

\* ---------------------------------------------------------- firebase-init
(***************************************************************************)
(* Model of the firebase-init modules (src/src/config/firebase-init.test.ts *)
(* holds them: the configurable web module and the di_web module).  A      *)
(* FirebaseConfig is a record of its four required fields, a field the     *)
(* caller left out is the empty string.  The module's nullable config is a *)
(* sequence: << >> is null, << c >> is the config c.  An app is a positive *)
(* number, 0 is null; the Auth instance of an app carries the app's number *)
(* (the SDK keeps one Auth per app).                                       *)
(***************************************************************************)
MaxInitCalls == 4

Variants == {"web", "di_web", "rn"}

ConfigA ==
    [apiKey |-> "key-a", authDomain |-> "a.firebaseapp.com",
     projectId |-> "project-a", appId |-> "app-a"]

ConfigB ==
    [apiKey |-> "key-b", authDomain |-> "b.firebaseapp.com",
     projectId |-> "project-b", appId |-> "app-b"]

\* A config without its appId.
ConfigIncomplete == [ConfigA EXCEPT !.appId = ""]

Configs == {ConfigA, ConfigB, ConfigIncomplete}

\* The di_web module takes no options.
NoOptions == << >>

requiredFields == {"apiKey", "authDomain", "projectId", "appId"}

isFirebaseConfiguredAlways(config) == config # << >>

\* isFirebaseConfigured() of the web module, reading the stored config.
isFirebaseConfigured(config) ==
    /\ config # << >>
    /\ \A field \in requiredFields : config[1][field] # ""

\* The app di_web's initializeWebApp() registers with the SDK.
DiWebApp == 100

\* getApp(): the registered default app.
getApp == CHOOSE app \in apps : TRUE

\* getAuth(app): the Auth instance of the app.
getAuth(app) == app

\* The state of the clients: firebase-init touches none of it.
hookVars == <<options, pc, requestInit, sent, response, result, parsing,
              getIdTokenCalls, inFlight, tokens, freshTokens, signOutCalls,
              signOutResults, onLogoutCalls, onTokenRefreshFailedCalls,
              now, issuedAt, fetchedAt, abortedIn>>

\* What one call of initializeFirebaseAuth leaves behind for its caller.
InitCall(config, outcome, app, authInstance) ==
    [config |-> config, outcome |-> outcome, app |-> app,
     auth |-> authInstance,
     alreadyInitialized |-> firebaseApp # 0 /\ firebaseAuth # 0,
     initializeAppCalls |-> initializeAppCalls',
     getAuthCalls |-> getAuthCalls',
     listeners |-> listeners']

\* `return { app: firebaseApp, auth: firebaseAuth }` of an initialised module.
ReturnExisting(config) ==
    /\ UNCHANGED <<auth, firebaseApp, firebaseAuth, apps, initializeAppCalls,
                   getAuthCalls, listeners>>
    /\ initLog' = Append(initLog,
                         InitCall(config, "returned", firebaseApp, firebaseAuth))

\* `throw new Error(...)` before anything is created.
Throw(config) ==
    /\ UNCHANGED <<auth, firebaseApp, firebaseAuth, apps, initializeAppCalls,
                   getAuthCalls, listeners>>
    /\ initLog' = Append(initLog, InitCall(config, "threw", 0, 0))

\* getAuth(app), onAuthStateChanged(auth, ...) and the return.  From now on
\* getFirebaseAuth() (`return firebaseAuth`) gives the instance, which has
\* no current user yet.
SetUpAuth(config, app) ==
    /\ firebaseApp' = app
    /\ firebaseAuth' = getAuth(app)
    /\ auth' = "noUser"
    /\ getAuthCalls' = getAuthCalls + 1
    /\ listeners' = listeners + 1
    /\ initLog' = Append(initLog,
                         InitCall(config, "returned", app, getAuth(app)))

initializeFirebaseAuthNoEarlyReturn(config) ==
    /\ variant = "web"
    /\ Len(initLog) < MaxInitCalls
    /\ firebaseConfig' = <<config>>
    /\ IF ~isFirebaseConfigured(<<config>>)
       THEN Throw(<<config>>)
       ELSE IF apps = {}
            THEN /\ initializeAppCalls' = initializeAppCalls + 1
                 /\ apps' = {initializeAppCalls + 1}
                 /\ SetUpAuth(<<config>>, initializeAppCalls + 1)
            ELSE /\ UNCHANGED <<initializeAppCalls, apps>>
                 /\ SetUpAuth(<<config>>, getApp)
    /\ UNCHANGED <<variant, currentUserRN, initialized, available, hookVars>>

initializeFirebaseAuthStoresAfterCheck(config) ==
    /\ variant = "web"
    /\ Len(initLog) < MaxInitCalls
    /\ IF firebaseApp # 0 /\ firebaseAuth # 0
       THEN /\ UNCHANGED firebaseConfig
            /\ ReturnExisting(<<config>>)
       ELSE IF ~isFirebaseConfigured(<<config>>)
            THEN /\ UNCHANGED firebaseConfig
                 /\ Throw(<<config>>)
            ELSE /\ firebaseConfig' = <<config>>
                 /\ IF apps = {}
                    THEN /\ initializeAppCalls' = initializeAppCalls + 1
                         /\ apps' = {initializeAppCalls + 1}
                         /\ SetUpAuth(<<config>>, initializeAppCalls + 1)
                    ELSE /\ UNCHANGED <<initializeAppCalls, apps>>
                         /\ SetUpAuth(<<config>>, getApp)
    /\ UNCHANGED <<variant, currentUserRN, initialized, available, hookVars>>

\* initializeFirebaseAuth(options) of the configurable web module.
initializeFirebaseAuth(config) ==
    /\ variant = "web"
    /\ Len(initLog) < MaxInitCalls
    /\ firebaseConfig' = <<config>>
    /\ IF firebaseApp # 0 /\ firebaseAuth # 0
       THEN ReturnExisting(<<config>>)
       ELSE IF ~isFirebaseConfigured(<<config>>)
            THEN Throw(<<config>>)
            ELSE IF apps = {}
                 THEN /\ initializeAppCalls' = initializeAppCalls + 1
                      /\ apps' = {initializeAppCalls + 1}
                      /\ SetUpAuth(<<config>>, initializeAppCalls + 1)
                 ELSE /\ UNCHANGED <<initializeAppCalls, apps>>
                      /\ SetUpAuth(<<config>>, getApp)
    /\ UNCHANGED <<variant, currentUserRN, initialized, available, hookVars>>

\* initializeFirebaseAuth() of the di_web module.
initializeFirebaseAuthDiWeb ==
    /\ variant = "di_web"
    /\ Len(initLog) < MaxInitCalls
    /\ IF firebaseApp # 0 /\ firebaseAuth # 0
       THEN ReturnExisting(NoOptions)
       ELSE IF apps = {}
            THEN Throw(NoOptions)
            ELSE /\ UNCHANGED <<initializeAppCalls, apps>>
                 /\ SetUpAuth(NoOptions, getApp)
    /\ UNCHANGED <<variant, currentUserRN, firebaseConfig, initialized, available, hookVars>>

\* di_web's initializeWebApp(), called by the application: it registers the
\* default app with the SDK.
initializeWebApp ==
    /\ apps = {}
    /\ apps' = {DiWebApp}
    /\ UNCHANGED <<variant, currentUserRN, firebaseApp, firebaseAuth, firebaseConfig,
                   initializeAppCalls, getAuthCalls, listeners, initLog,
                   initialized, available, auth, hookVars>>

\* What @react-native-firebase/app and /auth give when they can be loaded.
RNApp == 200

RNAuth == 201

\* getAppModule(): the cached module, or the one `require` gives; null (0)
\* when the require throws.
getAppModule ==
    IF firebaseApp # 0 THEN firebaseApp
    ELSE IF "app" \in available THEN RNApp ELSE 0

\* getAuthModule(), likewise.
getAuthModule ==
    IF firebaseAuth # 0 THEN firebaseAuth
    ELSE IF "auth" \in available THEN RNAuth ELSE 0

\* The module-level caching done by the two getters.
LoadModules(loadApp, loadAuth) ==
    /\ firebaseApp' = IF loadApp THEN getAppModule ELSE firebaseApp
    /\ firebaseAuth' = IF loadAuth THEN getAuthModule ELSE firebaseAuth
    /\ getAuthCalls' = IF loadAuth /\ firebaseAuth = 0 /\ getAuthModule # 0
                       THEN getAuthCalls + 1 ELSE getAuthCalls

initializeFirebaseAuthRNUnguarded ==
    /\ variant = "rn"
    /\ Len(initLog) < MaxInitCalls
    /\ LoadModules(TRUE, TRUE)
    /\ UNCHANGED <<initializeAppCalls>>
    /\ IF getAppModule = 0 \/ getAuthModule = 0
       THEN /\ UNCHANGED <<listeners, initialized>>
            /\ initLog' = Append(initLog, InitCall(NoOptions, "threw", 0, 0))
       ELSE /\ listeners' = listeners + 1
            /\ initialized' = TRUE
            /\ initLog' = Append(initLog,
                                 InitCall(NoOptions, "returned",
                                          getAppModule, getAuthModule))
    /\ UNCHANGED <<variant, currentUserRN, firebaseConfig, apps, available, auth, hookVars>>

\* initializeFirebaseAuth() of the React Native module.
initializeFirebaseAuthRN ==
    /\ variant = "rn"
    /\ Len(initLog) < MaxInitCalls
    /\ LoadModules(TRUE, TRUE)
    /\ UNCHANGED <<initializeAppCalls>>
    /\ IF getAppModule = 0 \/ getAuthModule = 0
       THEN /\ UNCHANGED <<listeners, initialized>>
            /\ initLog' = Append(initLog, InitCall(NoOptions, "threw", 0, 0))
       ELSE /\ listeners' = IF initialized THEN listeners ELSE listeners + 1
            /\ initialized' = TRUE
            /\ initLog' = Append(initLog,
                                 InitCall(NoOptions, "returned",
                                          getAppModule, getAuthModule))
    /\ UNCHANGED <<variant, currentUserRN, firebaseConfig, apps, available, auth, hookVars>>

\* getFirebaseApp() or isFirebaseConfigured() of the React Native module,
\* called while the app module is not loaded yet.
getFirebaseAppRN ==
    /\ variant = "rn"
    /\ firebaseApp = 0 /\ "app" \in available
    /\ LoadModules(TRUE, FALSE)
    /\ UNCHANGED <<variant, currentUserRN, firebaseConfig, apps, initializeAppCalls,
                   listeners, initLog, initialized, available, auth,
                   hookVars>>

\* getFirebaseAuth() of the React Native module, called while the auth
\* module is not loaded yet.
getFirebaseAuthRN ==
    /\ variant = "rn"
    /\ firebaseAuth = 0 /\ "auth" \in available
    /\ LoadModules(FALSE, TRUE)
    /\ UNCHANGED <<variant, currentUserRN, firebaseConfig, apps, initializeAppCalls,
                   listeners, initLog, initialized, available, auth,
                   hookVars>>

\* ------------------------------------------------------------------- Init
\* FirebaseAuthNetworkClientOptions: both callbacks are optional.
AllCallbacks == [onLogout |-> TRUE, onTokenRefreshFailed |-> TRUE]

NoCallbacks == [onLogout |-> FALSE, onTokenRefreshFailed |-> FALSE]

ClientOptions == [onLogout : BOOLEAN, onTokenRefreshFailed : BOOLEAN]

\* No request issued yet.
InitRequests ==
    /\ pc = [r \in Requests |-> "idle"]
    /\ requestInit = [r \in Requests |-> EmptyString]
    /\ sent = [r \in Requests |-> << >>]
    /\ response = [r \in Requests |-> NoResponse]
    /\ result = [r \in Requests |-> NoResult]
    /\ parsing = [r \in Requests |-> NoResponse]
    /\ getIdTokenCalls = [r \in Requests |-> << >>]
    /\ inFlight = {}
    /\ tokens = [r \in Requests |-> << >>]
    /\ freshTokens = [r \in Requests |-> << >>]
    /\ signOutCalls = [r \in Requests |-> 0]
    /\ signOutResults = [r \in Requests |-> << >>]
    /\ onLogoutCalls = [r \in Requests |-> 0]
    /\ onTokenRefreshFailedCalls = [r \in Requests |-> << >>]
    /\ now = 0
    /\ issuedAt = [r \in Requests |-> 0]
    /\ fetchedAt = [r \in Requests |-> 0]
    /\ abortedIn = [r \in Requests |-> "none"]

\* firebase-init as loaded: no app, no auth, no config, nothing registered.
InitModule(v) ==
    /\ variant = v
    /\ firebaseApp = 0
    /\ firebaseAuth = 0
    /\ firebaseConfig = << >>
    /\ apps = {}
    /\ initializeAppCalls = 0
    /\ getAuthCalls = 0
    /\ listeners = 0
    /\ initLog = << >>
    /\ initialized = FALSE
    /\ available \in (IF v = "rn" THEN SUBSET {"app", "auth"} ELSE {{}})

\* The web module after the application's initializeFirebaseAuth({config:
\* ConfigA}) at startup.
InitialisedWeb ==
    /\ variant = "web"
    /\ firebaseApp = 1
    /\ firebaseAuth = getAuth(1)
    /\ firebaseConfig = <<ConfigA>>
    /\ apps = {1}
    /\ initializeAppCalls = 1
    /\ getAuthCalls = 1
    /\ listeners = 1
    /\ initLog = << [config |-> <<ConfigA>>, outcome |-> "returned",
                     app |-> 1, auth |-> getAuth(1),
                     alreadyInitialized |-> FALSE, initializeAppCalls |-> 1,
                     getAuthCalls |-> 1, listeners |-> 1] >>
    /\ initialized = FALSE
    /\ available = {}

\* The web module as the auth state a client starts on implies: loaded only
\* while getFirebaseAuth() returns null, initialised otherwise.
InitWebModule ==
    /\ currentUserRN = FALSE
    /\ IF auth = "null" THEN InitModule("web") ELSE InitialisedWeb

\* Clients created with both callbacks registered, before Firebase auth is
\* initialised.
Init ==
    /\ auth = "null"
    /\ options = [r \in Requests |-> AllCallbacks]
    /\ InitRequests
    /\ InitModule("web")
    /\ currentUserRN = FALSE

\* Everything but auth: what the environment's steps leave alone.
clientVars == <<options, pc, requestInit, sent, response, result, parsing,
                getIdTokenCalls, inFlight, tokens, freshTokens, signOutCalls,
                signOutResults, onLogoutCalls, onTokenRefreshFailedCalls,
                now, issuedAt, fetchedAt, sideVars>>

\* ------------------------------------------------------------ environment
\* The application initialises Firebase auth at startup: from then on
\* getFirebaseAuth() stops returning null.
AuthInitialized ==
    /\ auth = "null"
    /\ initializeFirebaseAuth(ConfigA)

\* auth.currentUser becomes a user.
UserSignedIn ==
    /\ auth = "noUser"
    /\ auth' = "user"
    /\ UNCHANGED clientVars

\* auth.currentUser becomes null.
UserSignedOut ==
    /\ auth = "user"
    /\ auth' = "noUser"
    /\ UNCHANGED clientVars

\* ---------------------------------------------------------------- actions
\* client.request/get/post/put/delete -> executeWithRetry -> injectAuthToken,
\* up to the first await on a collaborator.
request(r) ==
    /\ pc[r] = "idle"
    /\ \E headers \in CallerHeaders :
        /\ requestInit' = [requestInit EXCEPT ![r] = headers]
        /\ issuedAt' = [issuedAt EXCEPT ![r] = now]
        /\ IF NeedsToken(headers)
           THEN IF HasUser
                THEN \* getAuthToken(false) awaits user.getIdToken(false)
                     /\ CallGetIdToken(r, FALSE)
                     /\ pc' = [pc EXCEPT ![r] = "getIdToken"]
                     /\ UNCHANGED <<sent, tokens>>
                ELSE \* getAuthToken(false) returns ''
                     /\ tokens' = [tokens EXCEPT ![r] = Append(@, EmptyString)]
                     /\ CallTransport(r, injectAuthToken(headers, EmptyString),
                                      "request1")
                     /\ UNCHANGED <<getIdTokenCalls, inFlight>>
           ELSE /\ CallTransport(r, headers, "request1")
                /\ UNCHANGED <<getIdTokenCalls, inFlight, tokens>>
    /\ UNCHANGED <<auth, options, response, result, parsing, freshTokens, signOutCalls,
                   signOutResults, onLogoutCalls, onTokenRefreshFailedCalls,
                   now, fetchedAt, sideVars>>

\* user.getIdToken(false) settles; injectAuthToken returns and the first
\* network.request is called.
getIdTokenSettled(r) ==
    /\ pc[r] = "getIdToken"
    /\ inFlight' = inFlight \ {Fetch(r, FALSE)}
    /\ \E token \in ProviderTokens \cup {EmptyString} :
        \* EmptyString: getIdToken rejected, caught, '' returned
        /\ tokens' = [tokens EXCEPT ![r] = Append(@, token)]
        /\ fetchedAt' = IF token # EmptyString
                        THEN [fetchedAt EXCEPT ![r] = now]
                        ELSE fetchedAt
        /\ CallTransport(r, injectAuthToken(requestInit[r], token), "request1")
    /\ UNCHANGED <<auth, options, requestInit, response, result, parsing, now, issuedAt,
                   sideVars,
                   getIdTokenCalls, freshTokens, signOutCalls, signOutResults,
                   onLogoutCalls, onTokenRefreshFailedCalls>>

AfterFirstResponseLogoutIfCallback(r, resp) ==
    /\ response' = [response EXCEPT ![r] = resp]
    /\ IF IsUnauthorized(resp.status) /\ HasUser
       THEN /\ CallGetIdToken(r, TRUE)
            /\ pc' = [pc EXCEPT ![r] = "refresh"]
            /\ UNCHANGED <<result, parsing, freshTokens, signOutCalls,
                           onTokenRefreshFailedCalls>>
       ELSE /\ IF IsUnauthorized(resp.status)
               THEN /\ freshTokens' =
                           [freshTokens EXCEPT ![r] = Append(@, EmptyString)]
                    /\ NotifyRefreshFailed(r)
               ELSE UNCHANGED <<freshTokens, onTokenRefreshFailedCalls>>
            /\ IF IsForbidden(resp.status) /\ HasAuth /\ options[r].onLogout
               THEN /\ signOutCalls' = [signOutCalls EXCEPT ![r] = @ + 1]
                    /\ pc' = [pc EXCEPT ![r] = "signOut"]
                    /\ UNCHANGED <<result, parsing>>
               ELSE /\ ReturnParsed(r, resp)
                    /\ UNCHANGED signOutCalls
            /\ UNCHANGED <<getIdTokenCalls, inFlight>>

AfterFirstResponseUnforcedRefresh(r, resp) ==
    /\ response' = [response EXCEPT ![r] = resp]
    /\ IF IsUnauthorized(resp.status) /\ HasUser
       THEN /\ CallGetIdToken(r, FALSE)
            /\ pc' = [pc EXCEPT ![r] = "refresh"]
            /\ UNCHANGED <<result, parsing, freshTokens, signOutCalls,
                           onTokenRefreshFailedCalls>>
       ELSE /\ IF IsUnauthorized(resp.status)
               THEN /\ freshTokens' =
                           [freshTokens EXCEPT ![r] = Append(@, EmptyString)]
                    /\ NotifyRefreshFailed(r)
               ELSE UNCHANGED <<freshTokens, onTokenRefreshFailedCalls>>
            /\ IF IsForbidden(resp.status) /\ HasAuth
               THEN /\ signOutCalls' = [signOutCalls EXCEPT ![r] = @ + 1]
                    /\ pc' = [pc EXCEPT ![r] = "signOut"]
                    /\ UNCHANGED <<result, parsing>>
               ELSE /\ ReturnParsed(r, resp)
                    /\ UNCHANGED signOutCalls
            /\ UNCHANGED <<getIdTokenCalls, inFlight>>

\* The code of executeWithRetry after `response = await network.request(...)`
\* up to its next await.
AfterFirstResponse(r, resp) ==
    /\ response' = [response EXCEPT ![r] = resp]
    /\ IF IsUnauthorized(resp.status) /\ HasUser
       THEN \* getAuthToken(true) awaits user.getIdToken(true)
            /\ CallGetIdToken(r, TRUE)
            /\ pc' = [pc EXCEPT ![r] = "refresh"]
            /\ UNCHANGED <<result, parsing, freshTokens, signOutCalls,
                           onTokenRefreshFailedCalls>>
       ELSE /\ IF IsUnauthorized(resp.status)
               THEN \* no user: freshToken is '', the refresh failed
                    /\ freshTokens' =
                           [freshTokens EXCEPT ![r] = Append(@, EmptyString)]
                    /\ NotifyRefreshFailed(r)
               ELSE UNCHANGED <<freshTokens, onTokenRefreshFailedCalls>>
            /\ IF IsForbidden(resp.status) /\ HasAuth
               THEN \* logoutUser awaits signOut(auth)
                    /\ signOutCalls' = [signOutCalls EXCEPT ![r] = @ + 1]
                    /\ pc' = [pc EXCEPT ![r] = "signOut"]
                    /\ UNCHANGED <<result, parsing>>
               ELSE /\ ReturnParsed(r, resp)
                    /\ UNCHANGED signOutCalls
            /\ UNCHANGED <<getIdTokenCalls, inFlight>>

firstResponseUnawaitedRefresh(r) ==
    /\ pc[r] = "request1"
    /\ \E status \in Statuses :
        IF IsUnauthorized(status) /\ HasUser
        THEN /\ response' = [response EXCEPT ![r] = Response(status, 1)]
             /\ CallGetIdToken(r, TRUE)
             /\ CallTransport(r, Bearer(EmptyString), "request2")
             /\ UNCHANGED <<result, parsing, freshTokens, signOutCalls,
                            onTokenRefreshFailedCalls>>
        ELSE /\ AfterFirstResponse(r, Response(status, 1))
             /\ UNCHANGED sent
    /\ UNCHANGED <<now, issuedAt, fetchedAt, sideVars>>
    /\ UNCHANGED <<auth, options, requestInit, tokens, signOutResults,
                   onLogoutCalls>>

\* The first network.request settles with a Response.
firstResponse(r) ==
    /\ pc[r] = "request1"
    /\ ~Aborted(r, 1)
    /\ \E status \in Statuses : AfterFirstResponse(r, Response(status, 1))
    /\ UNCHANGED <<now, issuedAt, fetchedAt, sideVars>>
    /\ UNCHANGED <<auth, options, requestInit, sent, tokens, signOutResults,
                   onLogoutCalls>>

firstFailureNotifies(r) ==
    /\ pc[r] = "request1"
    /\ Return(r, TransportFailure(1))
    /\ NotifyRefreshFailed(r)
    /\ UNCHANGED <<now, issuedAt, fetchedAt, sideVars>>
    /\ UNCHANGED <<auth, options, requestInit, sent, response,
                   getIdTokenCalls, inFlight, tokens, freshTokens,
                   signOutCalls, signOutResults, onLogoutCalls>>

\* The first network.request rejects: executeWithRetry rejects with it.
firstFailure(r) ==
    /\ pc[r] = "request1"
    /\ Return(r, TransportFailure(1))
    /\ UNCHANGED <<now, issuedAt, fetchedAt, sideVars>>
    /\ UNCHANGED <<auth, options, requestInit, sent, response,
                   getIdTokenCalls, inFlight, tokens, freshTokens,
                   signOutCalls, signOutResults, onLogoutCalls,
                   onTokenRefreshFailedCalls>>

refreshSettledRefetches(r) ==
    /\ pc[r] = "refresh"
    /\ \E freshToken \in ProviderTokens \cup {EmptyString} :
        /\ freshTokens' = [freshTokens EXCEPT ![r] = Append(@, freshToken)]
        /\ IF freshToken # EmptyString
           THEN /\ inFlight' = inFlight \ {Fetch(r, TRUE)}
                /\ CallTransport(r, retryHeaders(requestInit[r], freshToken),
                                 "request2")
                /\ UNCHANGED <<result, parsing, onTokenRefreshFailedCalls,
                               getIdTokenCalls>>
           ELSE IF Len(getIdTokenCalls[r]) < 3
                THEN /\ getIdTokenCalls' =
                            [getIdTokenCalls EXCEPT ![r] = Append(@, TRUE)]
                     /\ UNCHANGED <<inFlight, pc, sent, result, parsing,
                                    onTokenRefreshFailedCalls>>
                ELSE /\ inFlight' = inFlight \ {Fetch(r, TRUE)}
                     /\ NotifyRefreshFailed(r)
                     /\ ReturnParsed(r, response[r])
                     /\ UNCHANGED <<sent, getIdTokenCalls>>
    /\ UNCHANGED <<now, issuedAt, fetchedAt, sideVars>>
    /\ UNCHANGED <<auth, options, requestInit, response,
                   tokens, signOutCalls, signOutResults, onLogoutCalls>>

\* user.getIdToken(true) settles after a 401.
refreshSettled(r) ==
    /\ pc[r] = "refresh"
    /\ inFlight' = inFlight \ {Fetch(r, TRUE)}
    /\ \E freshToken \in ProviderTokens \cup {EmptyString} :
        /\ freshTokens' = [freshTokens EXCEPT ![r] = Append(@, freshToken)]
        /\ IF freshToken # EmptyString
           THEN /\ CallTransport(r, retryHeaders(requestInit[r], freshToken),
                                 "request2")
                /\ UNCHANGED <<result, parsing, onTokenRefreshFailedCalls>>
           ELSE /\ NotifyRefreshFailed(r)
                /\ ReturnParsed(r, response[r])
                /\ UNCHANGED sent
    /\ UNCHANGED <<now, issuedAt, fetchedAt, sideVars>>
    /\ UNCHANGED <<auth, options, requestInit, response, getIdTokenCalls,
                   tokens, signOutCalls, signOutResults, onLogoutCalls>>

retrySettledActsOnStatus(r) ==
    /\ pc[r] = "request2"
    /\ \/ \E s \in Statuses :
            /\ ReturnParsed(r, Response(s, 2))
            /\ IF IsForbidden(s)
               THEN NotifyLogout(r)
               ELSE UNCHANGED onLogoutCalls
       \/ /\ Return(r, TransportFailure(2))
          /\ UNCHANGED onLogoutCalls
    /\ UNCHANGED <<now, issuedAt, fetchedAt, sideVars>>
    /\ UNCHANGED <<auth, options, requestInit, sent, response,
                   getIdTokenCalls, inFlight, tokens, freshTokens,
                   signOutCalls, signOutResults, onTokenRefreshFailedCalls>>

retrySettledRetriesAgain(r) ==
    /\ pc[r] = "request2"
    /\ \E s \in Statuses :
        IF IsUnauthorized(s) /\ Len(sent[r]) < 3
        THEN /\ CallTransport(r, sent[r][Len(sent[r])], "request2")
             /\ UNCHANGED <<result, parsing>>
        ELSE /\ ReturnParsed(r, Response(s, 2))
             /\ UNCHANGED sent
    /\ UNCHANGED <<now, issuedAt, fetchedAt, sideVars>>
    /\ UNCHANGED <<auth, options, requestInit, response,
                   getIdTokenCalls, inFlight, tokens, freshTokens,
                   signOutCalls, signOutResults, onLogoutCalls,
                   onTokenRefreshFailedCalls>>

\* The retry settles: `return parseResponse(retryResponse)` whatever its
\* status; a rejection rejects executeWithRetry.
retrySettled(r) ==
    /\ pc[r] = "request2"
    /\ \/ /\ ~Aborted(r, 2)
          /\ \E s \in Statuses : ReturnParsed(r, Response(s, 2))
       \/ Return(r, TransportFailure(2))
    /\ UNCHANGED <<now, issuedAt, fetchedAt, sideVars>>
    /\ UNCHANGED <<auth, options, requestInit, sent, response,
                   getIdTokenCalls, inFlight, tokens, freshTokens,
                   signOutCalls, signOutResults, onLogoutCalls,
                   onTokenRefreshFailedCalls>>

signOutSettledHangs(r) ==
    /\ pc[r] = "signOut"
    /\ \E ok \in BOOLEAN :
        /\ signOutResults' = [signOutResults EXCEPT ![r] = Append(@, ok)]
        /\ AfterSignOut(r, ok)
        /\ IF ok
           THEN ReturnParsed(r, response[r])
           ELSE /\ pc' = [pc EXCEPT ![r] = "pending"]
                /\ UNCHANGED <<result, parsing>>
    /\ UNCHANGED <<now, issuedAt, fetchedAt, sideVars>>
    /\ UNCHANGED <<auth, options, requestInit, sent, response,
                   getIdTokenCalls, inFlight, tokens, freshTokens,
                   signOutCalls, onTokenRefreshFailedCalls>>

\* signOut(auth) settles inside logoutUser, then the original response is
\* parsed and returned.
signOutSettled(r) ==
    /\ pc[r] = "signOut"
    /\ \E ok \in BOOLEAN :
        /\ signOutResults' = [signOutResults EXCEPT ![r] = Append(@, ok)]
        /\ AfterSignOut(r, ok)
    /\ ReturnParsed(r, response[r])
    /\ UNCHANGED <<now, issuedAt, fetchedAt, sideVars>>
    /\ UNCHANGED <<auth, options, requestInit, sent, response,
                   getIdTokenCalls, inFlight, tokens, freshTokens,
                   signOutCalls, onTokenRefreshFailedCalls>>

\* response.json() settles inside parseResponse: the body is the data, or
\* the rejection is caught and data stays undefined; the NetworkResponse is
\* built from the Response and the caller's promise settles with it.
jsonSettled(r) ==
    /\ pc[r] = "parse"
    /\ result' = [result EXCEPT ![r] = parseResponse(parsing[r])]
    /\ pc' = [pc EXCEPT ![r] = "done"]
    /\ UNCHANGED <<auth, options, requestInit, sent, response, parsing,
                   getIdTokenCalls, inFlight, tokens, freshTokens,
                   signOutCalls, signOutResults, onLogoutCalls,
                   onTokenRefreshFailedCalls, now, issuedAt, fetchedAt,
                   sideVars>>

\* The clock advances (the tests' vi.advanceTimersByTime).
Tick ==
    /\ now < MaxTicks * TickMs
    /\ now' = now + TickMs
    /\ UNCHANGED <<auth, options, pc, requestInit, sent, response, result, parsing,
                   getIdTokenCalls, inFlight, tokens, freshTokens,
                   signOutCalls, signOutResults, onLogoutCalls,
                   onTokenRefreshFailedCalls, issuedAt, fetchedAt, sideVars>>

Next ==
    \/ AuthInitialized
    \/ UserSignedIn
    \/ UserSignedOut
    \/ \E r \in Requests : request(r)
    \/ \E r \in Requests : getIdTokenSettled(r)
    \/ \E r \in Requests : firstResponse(r)
    \/ \E r \in Requests : firstFailure(r)
    \/ \E r \in Requests : refreshSettled(r)
    \/ \E r \in Requests : retrySettled(r)
    \/ \E r \in Requests : signOutSettled(r)
    \/ \E r \in Requests : jsonSettled(r)

Spec == Init /\ [][Next]_vars

\* Clients with and without callbacks side by side, on one auth state: the
\* first request is issued on a client with both callbacks, the others on
\* a client that lacks one of them or both.
InitCallbacks ==
    /\ auth \in AuthStates
    /\ \E o \in ClientOptions \ {AllCallbacks} :
        options = [r \in Requests |-> IF r = 1 THEN AllCallbacks ELSE o]
    /\ InitRequests
    /\ InitWebModule

NextCallbacks ==
    \/ \E r \in Requests : request(r)
    \/ \E r \in Requests : getIdTokenSettled(r)
    \/ \E r \in Requests : firstResponse(r)
    \/ \E r \in Requests : firstFailure(r)
    \/ \E r \in Requests : refreshSettled(r)
    \/ \E r \in Requests : retrySettled(r)
    \/ \E r \in Requests : signOutSettled(r)
    \/ \E r \in Requests : jsonSettled(r)

SpecCallbacks == InitCallbacks /\ [][NextCallbacks]_vars

\* The client with a clock that advances between its steps.
NextTime == Next \/ Tick

SpecTime == Init /\ [][NextTime]_vars

\* The caller aborts the signal it passed with request r (reqOptions.signal)
\* while the request is under way.
abort(r) ==
    /\ pc[r] \notin {"idle", "done"}
    /\ abortedIn[r] = "none"
    /\ abortedIn' = [abortedIn EXCEPT ![r] = pc[r]]
    /\ UNCHANGED <<auth, options, pc, requestInit, sent, response, result, parsing,
                   getIdTokenCalls, inFlight, tokens, freshTokens,
                   signOutCalls, signOutResults, onLogoutCalls,
                   onTokenRefreshFailedCalls, now, issuedAt, fetchedAt,
                   initVars>>

\* The client with callers that may abort their requests.
NextCancel == Next \/ \E r \in Requests : abort(r)

SpecCancel == Init /\ [][NextCancel]_vars

\* The promises of the three collaborators settle: user.getIdToken,
\* network.request and signOut each resolve or reject, so the continuation
\* of a request waiting on one of them is eventually run.  The body is
\* part of the Response the transport delivered, so response.json()
\* settles with it.
Settles(r) ==
    /\ WF_vars(getIdTokenSettled(r))
    /\ WF_vars(firstResponse(r) \/ firstFailure(r))
    /\ WF_vars(refreshSettled(r))
    /\ WF_vars(retrySettled(r))
    /\ WF_vars(signOutSettled(r))
    /\ WF_vars(jsonSettled(r))

SpecLive == Init /\ [][Next]_vars /\ \A r \in Requests : Settles(r)

\* ------------------------------------------- FirebaseAuthNetworkService
(***************************************************************************)
(* Model of FirebaseAuthNetworkService.request of the web build            *)
(* (src/src/network/FirebaseAuthNetworkService.ts).  A logical request is  *)
(* one task running request(); super.request resolves with an OK response  *)
(* or rejects, with a NetworkError that carries the status of a non-OK     *)
(* response or with an error that has no status.  The service injects no   *)
(* token: the headers are the caller's.                                    *)
(***************************************************************************)
ErrorStatuses == {StatusUnauthorized, StatusForbidden, StatusServerError}

\* The NetworkResponse super.request resolves with.
ServiceResponse(status, attempt) ==
    [kind |-> "response", status |-> status, ok |-> TRUE, success |-> TRUE,
     attempt |-> attempt]

\* The NetworkError super.request rejects with for a non-OK response.
NetworkError(status, attempt) ==
    [kind |-> "networkError", status |-> status, ok |-> FALSE,
     success |-> FALSE, attempt |-> attempt]

\* What one super.request call can settle with.
ServiceOutcomes(attempt) ==
    {ServiceResponse(StatusOK, attempt)}
        \cup {NetworkError(status, attempt) : status \in ErrorStatuses}
        \cup {TransportFailure(attempt)}

\* error && typeof error === 'object' && 'status' in error
HasStatus(error) == error.kind = "networkError"

\* service.request(url, options) up to `await super.request(url, options)`.
serviceRequest(r) ==
    /\ pc[r] = "idle"
    /\ \E headers \in CallerHeaders :
        /\ requestInit' = [requestInit EXCEPT ![r] = headers]
        /\ CallTransport(r, headers, "serviceRequest1")
    /\ issuedAt' = [issuedAt EXCEPT ![r] = now]
    /\ UNCHANGED <<auth, options, response, result, parsing, getIdTokenCalls, inFlight,
                   tokens, freshTokens, signOutCalls, signOutResults,
                   onLogoutCalls, onTokenRefreshFailedCalls, now, fetchedAt,
                   sideVars>>

\* The catch block of request() up to its next await or its `throw error`.
AfterServiceError(r, error) ==
    IF HasStatus(error) /\ IsUnauthorized(error.status) /\ HasUser
    THEN \* getAuthToken(true) awaits user.getIdToken(true)
         /\ CallGetIdToken(r, TRUE)
         /\ pc' = [pc EXCEPT ![r] = "serviceRefresh"]
         /\ UNCHANGED <<result, parsing, freshTokens, signOutCalls,
                        onTokenRefreshFailedCalls>>
    ELSE /\ IF HasStatus(error) /\ IsUnauthorized(error.status)
            THEN \* no user: freshToken is '', the refresh failed
                 /\ freshTokens' =
                        [freshTokens EXCEPT ![r] = Append(@, EmptyString)]
                 /\ NotifyRefreshFailed(r)
            ELSE UNCHANGED <<freshTokens, onTokenRefreshFailedCalls>>
         /\ IF HasStatus(error) /\ IsForbidden(error.status) /\ HasAuth
            THEN \* logoutUser awaits signOut(auth)
                 /\ signOutCalls' = [signOutCalls EXCEPT ![r] = @ + 1]
                 /\ pc' = [pc EXCEPT ![r] = "serviceSignOut"]
                 /\ UNCHANGED <<result, parsing>>
            ELSE \* `throw error`
                 /\ Return(r, error)
                 /\ UNCHANGED signOutCalls
         /\ UNCHANGED <<getIdTokenCalls, inFlight>>

\* The first super.request settles: `return response`, or the catch block.
serviceFirstSettled(r) ==
    /\ pc[r] = "serviceRequest1"
    /\ \E outcome \in ServiceOutcomes(1) :
        /\ response' = [response EXCEPT ![r] = outcome]
        /\ IF outcome.kind = "response"
           THEN /\ Return(r, outcome)
                /\ UNCHANGED <<getIdTokenCalls, inFlight, freshTokens,
                               signOutCalls, onTokenRefreshFailedCalls>>
           ELSE AfterServiceError(r, outcome)
    /\ UNCHANGED <<auth, options, requestInit, sent, tokens, signOutResults,
                   onLogoutCalls, now, issuedAt, fetchedAt, sideVars>>

\* user.getIdToken(true) settles after a 401: the retry is called, or the
\* refresh has failed and the original error is re-thrown.
serviceRefreshSettled(r) ==
    /\ pc[r] = "serviceRefresh"
    /\ inFlight' = inFlight \ {Fetch(r, TRUE)}
    /\ \E freshToken \in ProviderTokens \cup {EmptyString} :
        /\ freshTokens' = [freshTokens EXCEPT ![r] = Append(@, freshToken)]
        /\ IF freshToken # EmptyString
           THEN /\ CallTransport(r, retryHeaders(requestInit[r], freshToken),
                                 "serviceRequest2")
                /\ UNCHANGED <<result, parsing, onTokenRefreshFailedCalls>>
           ELSE /\ NotifyRefreshFailed(r)
                /\ Return(r, response[r])
                /\ UNCHANGED sent
    /\ UNCHANGED <<auth, options, requestInit, response, getIdTokenCalls,
                   tokens, signOutCalls, signOutResults, onLogoutCalls,
                   now, issuedAt, fetchedAt, sideVars>>

serviceRetrySettledRethrowsOriginal(r) ==
    /\ pc[r] = "serviceRequest2"
    /\ \E outcome \in ServiceOutcomes(2) :
        Return(r, IF outcome.kind = "response" THEN outcome ELSE response[r])
    /\ UNCHANGED <<auth, options, requestInit, sent, response,
                   getIdTokenCalls, inFlight, tokens, freshTokens,
                   signOutCalls, signOutResults, onLogoutCalls,
                   onTokenRefreshFailedCalls, now, issuedAt, fetchedAt,
                   sideVars>>

\* The retry settles: `return retryResponse` or `throw retryError`.
serviceRetrySettled(r) ==
    /\ pc[r] = "serviceRequest2"
    /\ \E outcome \in ServiceOutcomes(2) : Return(r, outcome)
    /\ UNCHANGED <<auth, options, requestInit, sent, response,
                   getIdTokenCalls, inFlight, tokens, freshTokens,
                   signOutCalls, signOutResults, onLogoutCalls,
                   onTokenRefreshFailedCalls, now, issuedAt, fetchedAt,
                   sideVars>>

\* signOut(auth) settles inside logoutUser, then the original error is
\* re-thrown.
serviceSignOutSettled(r) ==
    /\ pc[r] = "serviceSignOut"
    /\ \E ok \in BOOLEAN :
        /\ signOutResults' = [signOutResults EXCEPT ![r] = Append(@, ok)]
        /\ AfterSignOut(r, ok)
    /\ Return(r, response[r])
    /\ UNCHANGED <<auth, options, requestInit, sent, response,
                   getIdTokenCalls, inFlight, tokens, freshTokens,
                   signOutCalls, onTokenRefreshFailedCalls, now, issuedAt,
                   fetchedAt, sideVars>>

NextService ==
    \/ AuthInitialized
    \/ UserSignedIn
    \/ UserSignedOut
    \/ \E r \in Requests : serviceRequest(r)
    \/ \E r \in Requests : serviceFirstSettled(r)
    \/ \E r \in Requests : serviceRefreshSettled(r)
    \/ \E r \in Requests : serviceRetrySettled(r)
    \/ \E r \in Requests : serviceSignOutSettled(r)

SpecService == Init /\ [][NextService]_vars

\* ---------------------------- FirebaseAuthNetworkService (Response-based)
(***************************************************************************)
(* Model of the Response-based FirebaseAuthNetworkService.request          *)
(* (src/src/network/FirebaseAuthNetworkService.rn.ts and the web copy in   *)
(* src/unnamed/part_002).  super.request resolves with a Response of any   *)
(* status or rejects; the service injects no token and returns the         *)
(* Response object itself.  The web copy reads the auth singleton of       *)
(* config/firebase-init, the module the hook reads, with a getter that     *)
(* changes nothing; the React Native one goes through firebase-init.rn's   *)
(* getFirebaseAuth(), which loads and caches @react-native-firebase/auth   *)
(* on first use and knows nothing of the web module.                       *)
(***************************************************************************)

\* What the getFirebaseAuth() the service imports returns: the web module's
\* auth for the web copy, the @react-native-firebase/auth instance (null
\* when it cannot be loaded) for the React Native one.
ServiceAuth ==
    IF variant = "rn"
    THEN IF getAuthModule = 0 THEN "null"
         ELSE IF currentUserRN THEN "user" ELSE "noUser"
    ELSE auth

\* The service's getAuthToken guard: auth?.currentUser
ServiceHasUser == ServiceAuth = "user"

\* The service's logoutUser guard: if (!auth) return
ServiceHasAuth == ServiceAuth # "null"

\* What a step of the service leaves alone in firebase-init.
serviceSideVars == <<abortedIn, variant, currentUserRN, firebaseConfig, apps,
                     initializeAppCalls, listeners, initLog, initialized,
                     available>>

\* getFirebaseAuth() as getAuthToken and logoutUser call it: the React
\* Native getter caches the module it loads, the web getter only reads.
CallGetFirebaseAuth ==
    IF variant = "rn"
    THEN LoadModules(FALSE, TRUE)
    ELSE UNCHANGED <<firebaseApp, firebaseAuth, getAuthCalls>>

\* service.request(url, options) up to `await super.request(url, options)`.
responseServiceRequest(r) ==
    /\ pc[r] = "idle"
    /\ \E headers \in CallerHeaders :
        /\ requestInit' = [requestInit EXCEPT ![r] = headers]
        /\ CallTransport(r, headers, "responseRequest1")
    /\ issuedAt' = [issuedAt EXCEPT ![r] = now]
    /\ UNCHANGED <<auth, options, response, result, parsing, getIdTokenCalls, inFlight,
                   tokens, freshTokens, signOutCalls, signOutResults,
                   onLogoutCalls, onTokenRefreshFailedCalls, now, fetchedAt,
                   sideVars>>

\* The code of request() after `response = await super.request(...)` up to
\* its next await.
AfterServiceResponse(r, resp) ==
    /\ response' = [response EXCEPT ![r] = resp]
    /\ IF IsUnauthorized(resp.status) \/ IsForbidden(resp.status)
       THEN \* getAuthToken(true) and logoutUser start with getFirebaseAuth()
            CallGetFirebaseAuth
       ELSE UNCHANGED <<firebaseApp, firebaseAuth, getAuthCalls>>
    /\ IF IsUnauthorized(resp.status) /\ ServiceHasUser
       THEN \* getAuthToken(true) awaits user.getIdToken(true)
            /\ CallGetIdToken(r, TRUE)
            /\ pc' = [pc EXCEPT ![r] = "responseRefresh"]
            /\ UNCHANGED <<result, parsing, freshTokens, signOutCalls,
                           onTokenRefreshFailedCalls>>
       ELSE /\ IF IsUnauthorized(resp.status)
               THEN \* no user: freshToken is '', the refresh failed
                    /\ freshTokens' =
                           [freshTokens EXCEPT ![r] = Append(@, EmptyString)]
                    /\ NotifyRefreshFailed(r)
               ELSE UNCHANGED <<freshTokens, onTokenRefreshFailedCalls>>
            /\ IF IsForbidden(resp.status) /\ ServiceHasAuth
               THEN \* logoutUser awaits auth.signOut()
                    /\ signOutCalls' = [signOutCalls EXCEPT ![r] = @ + 1]
                    /\ pc' = [pc EXCEPT ![r] = "responseSignOut"]
                    /\ UNCHANGED <<result, parsing>>
               ELSE \* `return response`
                    /\ Return(r, resp)
                    /\ UNCHANGED signOutCalls
            /\ UNCHANGED <<getIdTokenCalls, inFlight>>

\* The first super.request resolves with a Response.
responseFirstResponse(r) ==
    /\ pc[r] = "responseRequest1"
    /\ \E status \in Statuses : AfterServiceResponse(r, Response(status, 1))
    /\ UNCHANGED <<auth, options, requestInit, sent, tokens, signOutResults,
                   onLogoutCalls, now, issuedAt, fetchedAt, serviceSideVars>>

\* The first super.request rejects: request() rejects with it.
responseFirstFailure(r) ==
    /\ pc[r] = "responseRequest1"
    /\ Return(r, TransportFailure(1))
    /\ UNCHANGED <<auth, options, requestInit, sent, response,
                   getIdTokenCalls, inFlight, tokens, freshTokens,
                   signOutCalls, signOutResults, onLogoutCalls,
                   onTokenRefreshFailedCalls, now, issuedAt, fetchedAt,
                   sideVars>>

\* user.getIdToken(true) settles after a 401.
responseRefreshSettled(r) ==
    /\ pc[r] = "responseRefresh"
    /\ inFlight' = inFlight \ {Fetch(r, TRUE)}
    /\ \E freshToken \in ProviderTokens \cup {EmptyString} :
        /\ freshTokens' = [freshTokens EXCEPT ![r] = Append(@, freshToken)]
        /\ IF freshToken # EmptyString
           THEN /\ CallTransport(r, retryHeaders(requestInit[r], freshToken),
                                 "responseRequest2")
                /\ UNCHANGED <<result, parsing, onTokenRefreshFailedCalls>>
           ELSE /\ NotifyRefreshFailed(r)
                /\ Return(r, response[r])
                /\ UNCHANGED sent
    /\ UNCHANGED <<auth, options, requestInit, response, getIdTokenCalls,
                   tokens, signOutCalls, signOutResults, onLogoutCalls,
                   now, issuedAt, fetchedAt, sideVars>>

\* The retry settles: `return super.request(...)`, whatever its status.
responseRetrySettled(r) ==
    /\ pc[r] = "responseRequest2"
    /\ \E outcome \in {Response(status, 2) : status \in Statuses}
                        \cup {TransportFailure(2)} :
        Return(r, outcome)
    /\ UNCHANGED <<auth, options, requestInit, sent, response,
                   getIdTokenCalls, inFlight, tokens, freshTokens,
                   signOutCalls, signOutResults, onLogoutCalls,
                   onTokenRefreshFailedCalls, now, issuedAt, fetchedAt,
                   sideVars>>

\* auth.signOut() settles inside logoutUser, then `return response`.
responseSignOutSettled(r) ==
    /\ pc[r] = "responseSignOut"
    /\ \E ok \in BOOLEAN :
        /\ signOutResults' = [signOutResults EXCEPT ![r] = Append(@, ok)]
        /\ AfterSignOut(r, ok)
    /\ Return(r, response[r])
    /\ UNCHANGED <<auth, options, requestInit, sent, response,
                   getIdTokenCalls, inFlight, tokens, freshTokens,
                   signOutCalls, onTokenRefreshFailedCalls, now, issuedAt,
                   fetchedAt, sideVars>>

\* The request made through the hook client; the others go through the
\* service.
HookRequest == 1

\* The same callbacks registered on the client and on the service.  In a
\* web application the service is the web copy (part_002) and reads the
\* auth of config/firebase-init as the hook does.  In a React Native
\* application (src/unnamed/part_000) the service is the React Native copy:
\* only firebase-init.rn is exported and initialised, so the web module the
\* hook reads holds no auth, while the service has the native auth instance
\* whenever @react-native-firebase/auth can be loaded, signed in or not.
InitBoth ==
    /\ options = [r \in Requests |-> AllCallbacks]
    /\ InitRequests
    /\ \/ /\ auth \in AuthStates
          /\ InitWebModule
       \/ /\ auth = "null"
          /\ InitModule("rn")
          /\ currentUserRN \in
                (IF "auth" \in available THEN BOOLEAN ELSE {FALSE})

\* The hook client and the Response-based service side by side.
NextBoth ==
    \/ request(HookRequest)
    \/ getIdTokenSettled(HookRequest)
    \/ firstResponse(HookRequest)
    \/ firstFailure(HookRequest)
    \/ refreshSettled(HookRequest)
    \/ retrySettled(HookRequest)
    \/ signOutSettled(HookRequest)
    \/ jsonSettled(HookRequest)
    \/ \E r \in Requests \ {HookRequest} : responseServiceRequest(r)
    \/ \E r \in Requests \ {HookRequest} : responseFirstResponse(r)
    \/ \E r \in Requests \ {HookRequest} : responseFirstFailure(r)
    \/ \E r \in Requests \ {HookRequest} : responseRefreshSettled(r)
    \/ \E r \in Requests \ {HookRequest} : responseRetrySettled(r)
    \/ \E r \in Requests \ {HookRequest} : responseSignOutSettled(r)

SpecBoth == InitBoth /\ [][NextBoth]_vars

\* ------------------------------------------- firebase-init on its own
\* Either module freshly loaded, no request issued.
InitFirebaseInit ==
    /\ auth = "null"
    /\ options = [r \in Requests |-> AllCallbacks]
    /\ InitRequests
    /\ \E v \in Variants : InitModule(v)
    /\ currentUserRN = FALSE

NextFirebaseInit ==
    \/ \E config \in Configs : initializeFirebaseAuth(config)
    \/ initializeFirebaseAuthDiWeb
    \/ initializeWebApp
    \/ initializeFirebaseAuthRN
    \/ getFirebaseAppRN
    \/ getFirebaseAuthRN

SpecFirebaseInit == InitFirebaseInit /\ [][NextFirebaseInit]_vars

\* ----------------------------------------------------------------- claims
\* Request r is returning the first Response: executeWithRetry has handed it
\* to parseResponse, and the caller has its NetworkResponse once the body
\* has been read.
ReturnsOriginal(r) ==
    /\ pc[r] \in {"parse", "done"}
    /\ parsing[r] = response[r]
    /\ pc[r] = "done" => result[r] = parseResponse(response[r])

\* The getIdToken calls request r made with this forceRefresh.
CallsOf(r, forceRefresh) ==
    Cardinality({i \in 1..Len(getIdTokenCalls[r]) :
                    getIdTokenCalls[r][i] = forceRefresh})

\* All getIdToken calls made with this forceRefresh, over all requests.
TotalCalls(forceRefresh) ==
    Cardinality({c \in Requests \X (1..2) :
                    /\ c[2] <= Len(getIdTokenCalls[c[1]])
                    /\ getIdTokenCalls[c[1]][c[2]] = forceRefresh})

\* The getIdToken promises request r is the caller of.
OwnFetches(r) == {f \in inFlight : f.request = r}

AwaitingInitialToken == {r \in Requests : pc[r] = "getIdToken"}

AwaitingRefresh == {r \in Requests : pc[r] = "refresh"}

\* C1 as the spec states it: when two or more requests are awaiting their
\* initial token at the same time, user.getIdToken was invoked exactly once
\* in total for them (single-flight).
C1_SingleFlight ==
    Cardinality(AwaitingInitialToken) >= 2 => TotalCalls(FALSE) = 1

\* C1 (amended): there is no single-flight. Every request issued without an
\* Authorization header while a user is signed in makes its own
\* getIdToken(false) call, exactly one, so N concurrent requests make N
\* calls; the first attempt of each request carries Bearer <the token its
\* own call returned>, or no Authorization header when its own call failed.
C1_OneFetchPerRequest ==
    /\ \A r \in Requests :
        /\ CallsOf(r, FALSE) <= 1
        /\ pc[r] = "getIdToken" =>
              CallsOf(r, FALSE) = 1 /\ Fetch(r, FALSE) \in inFlight
        /\ (tokens[r] # << >> /\ tokens[r][1] \in ProviderTokens) =>
              CallsOf(r, FALSE) = 1
        /\ Len(sent[r]) >= 1 =>
              sent[r][1] = IF NeedsToken(requestInit[r])
                           THEN injectAuthToken(requestInit[r], tokens[r][1])
                           ELSE requestInit[r]
    /\ TotalCalls(FALSE) >= Cardinality(AwaitingInitialToken)

\* Two requests await their initial token at once, each on its own call.
C1_Witness ==
    /\ Cardinality(AwaitingInitialToken) >= 2
    /\ TotalCalls(FALSE) = Cardinality(AwaitingInitialToken)

\* C2 as the spec states it: at most one upstream token fetch is in flight
\* in every reachable state.
C2_AtMostOneInFlight == Cardinality(inFlight) <= 1

\* C2 (amended): each request has at most one fetch of its own in flight, a
\* request awaits a token exactly while its own fetch is in flight, and it
\* receives the result of each fetch it started; across N concurrent
\* requests up to N fetches are in flight at once.
C2_OwnFetchInFlight ==
    \A r \in Requests :
        /\ Cardinality(OwnFetches(r)) <= 1
        /\ pc[r] \in {"getIdToken", "refresh"} <=> OwnFetches(r) # {}
        /\ Len(getIdTokenCalls[r]) - Cardinality(OwnFetches(r))
              <= Len(tokens[r]) + Len(freshTokens[r])

\* Two fetches are in flight at once, one per awaiting request.
C2_Witness ==
    /\ Cardinality(inFlight) >= 2
    /\ \A f \in inFlight : pc[f.request] \in {"getIdToken", "refresh"}

\* C3 as the spec states it: when two or more requests that received a 401
\* await a forced refresh at the same time, exactly one getIdToken(true)
\* was issued.
C3_ForcedRefreshCoalesced ==
    Cardinality(AwaitingRefresh) >= 2 => TotalCalls(TRUE) = 1

\* C3 (amended): forced refreshes are not coalesced. Every request that
\* receives a 401 while a user is signed in issues its own
\* getIdToken(true), exactly one, so K concurrent 401s cause K forced
\* fetches.
C3_OneForcedFetchPerRequest ==
    /\ \A r \in Requests :
        /\ CallsOf(r, TRUE) <= 1
        /\ pc[r] = "refresh" =>
              /\ IsUnauthorized(response[r].status)
              /\ CallsOf(r, TRUE) = 1
              /\ Fetch(r, TRUE) \in inFlight
        /\ (freshTokens[r] # << >> /\ freshTokens[r][1] \in ProviderTokens) =>
              CallsOf(r, TRUE) = 1
    /\ TotalCalls(TRUE) >= Cardinality(AwaitingRefresh)

\* Two requests that got a 401 await their own forced refresh at once.
C3_Witness ==
    /\ Cardinality(AwaitingRefresh) >= 2
    /\ TotalCalls(TRUE) = Cardinality(AwaitingRefresh)

\* C4: bounded retry. Whatever the transport answers, network.request is
\* called at most twice for a logical request, and the second call is made
\* only after a 401 on the first attempt.
C4_BoundedRetry ==
    \A r \in Requests :
        /\ Len(sent[r]) <= 2
        /\ Len(sent[r]) = 2 => IsUnauthorized(response[r].status)

\* A request whose second attempt also answered 401 has ended after two
\* transport calls.
C4_Witness ==
    \E r \in Requests :
        /\ pc[r] = "done"
        /\ Len(sent[r]) = 2
        /\ result[r].attempt = 2
        /\ result[r].status = StatusUnauthorized

\* C5 as the spec states it: a request whose first response is 403 calls
\* the transport exactly once and signOut exactly once.
C5_NoRetryOn403 ==
    \A r \in Requests :
        (pc[r] = "done" /\ IsForbidden(response[r].status)) =>
            Len(sent[r]) = 1 /\ signOutCalls[r] = 1

\* C5 (amended): a request whose first response is 403 calls the transport
\* exactly once; it calls signOut exactly once when getFirebaseAuth()
\* returns an auth instance as the 403 is handled, and not at all when it
\* returns null.
C5_NoRetryOn403IfAuth ==
    /\ [](\A r \in Requests :
            IsForbidden(response[r].status) =>
                /\ Len(sent[r]) = 1
                /\ signOutCalls[r] <= 1
                /\ pc[r] = "signOut" => signOutCalls[r] = 1
                /\ Len(signOutResults[r]) <= signOutCalls[r])
    /\ [][\A r \in Requests :
            (pc[r] = "request1" /\ IsForbidden(response'[r].status)) =>
                signOutCalls'[r] = IF auth = "null" THEN 0 ELSE 1]_vars

\* A 403 was answered while an auth instance existed: one transport call,
\* one signOut call, and the request has ended.
C5_Witness ==
    \E r \in Requests :
        /\ pc[r] = "done"
        /\ IsForbidden(response[r].status)
        /\ Len(sent[r]) = 1
        /\ signOutCalls[r] = 1

\* C6: on a 403, onLogout is invoked exactly once after a signOut that
\* succeeded and not at all after one that failed; onLogout is invoked for
\* no other reason, and a signOut failure is swallowed (the request still
\* resolves with a response).
C6_LogoutIffSignOutSucceeded ==
    \A r \in Requests :
        /\ onLogoutCalls[r] =
              Cardinality({i \in 1..Len(signOutResults[r]) :
                              signOutResults[r][i]})
        /\ onLogoutCalls[r] <= 1
        /\ onLogoutCalls[r] > 0 => IsForbidden(response[r].status)
        /\ signOutResults[r] # << >> =>
              ReturnsOriginal(r) /\ parsing[r].kind = "response"

\* One request saw signOut succeed, another saw it fail.
C6_Witness ==
    /\ \E r \in Requests :
        signOutResults[r] = <<TRUE>> /\ onLogoutCalls[r] = 1
    /\ \E r \in Requests :
        /\ signOutResults[r] = <<FALSE>>
        /\ onLogoutCalls[r] = 0
        /\ result[r].status = StatusForbidden

\* C7: a request whose first response is 403 resolves with that first
\* response, status 403 and ok false, whether signOut succeeded, failed or
\* was not called for lack of an auth instance.
C7_Returns403 ==
    \A r \in Requests :
        (pc[r] = "done" /\ IsForbidden(response[r].status)) =>
            result[r] = [kind |-> "response", status |-> StatusForbidden,
                         ok |-> FALSE, success |-> FALSE, attempt |-> 1]

\* One request got its 403 back without an auth instance, another after a
\* failed signOut.
C7_Witness ==
    /\ \E r \in Requests :
        /\ result[r].status = StatusForbidden
        /\ signOutCalls[r] = 0
    /\ \E r \in Requests :
        /\ result[r].status = StatusForbidden
        /\ signOutResults[r] = <<FALSE>>

\* C8: while getFirebaseAuth() returns null no request calls signOut or
\* onLogout; a request answered 403 in that situation does not throw and
\* resolves with the 403 response.
C8_NoAuthInstance ==
    auth = "null" =>
        \A r \in Requests :
            /\ signOutCalls[r] = 0
            /\ onLogoutCalls[r] = 0
            /\ pc[r] # "signOut"
            /\ (IsForbidden(response[r].status)) =>
                  /\ ReturnsOriginal(r)
                  /\ parsing[r].kind = "response"
                  /\ parsing[r].status = StatusForbidden

\* A request was answered 403 and has ended while there is no auth instance.
C8_Witness ==
    /\ auth = "null"
    /\ \E r \in Requests :
        pc[r] = "done" /\ IsForbidden(response[r].status)

\* C9: after a 401 whose forced refresh returned a token, the transport is
\* called exactly once more, with Authorization: Bearer <that token>, no
\* callback is invoked, and the caller gets what the second attempt yields
\* (its response or its rejection), never the original 401.
C9_RetryWithFreshToken ==
    \A r \in Requests :
        (/\ IsUnauthorized(response[r].status)
         /\ freshTokens[r] # << >>
         /\ freshTokens[r][1] # EmptyString) =>
            /\ freshTokens[r][1] \in ProviderTokens
            /\ Len(sent[r]) = 2
            /\ sent[r][2] = <<"Bearer">> \o freshTokens[r][1]
            /\ onTokenRefreshFailedCalls[r] = << >>
            /\ pc[r] \in {"request2", "parse", "done"}
            /\ pc[r] = "parse" => parsing[r].attempt = 2
            /\ pc[r] = "done" =>
                  /\ result[r].attempt = 2
                  /\ result[r].kind \in {"response", "failure"}

\* A 401 was retried with the refreshed token in place of the caller's own
\* header and the caller received the retry's 200.
C9_Witness ==
    \E r \in Requests :
        /\ pc[r] = "done"
        /\ IsUnauthorized(response[r].status)
        /\ Len(sent[r]) = 2
        /\ sent[r][1] = Bearer(<<CustomToken>>)
        /\ sent[r][2] = Bearer(freshTokens[r][1])
        /\ result[r].status = StatusOK
        /\ result[r].attempt = 2

\* C10: after a 401 whose forced refresh failed (getIdToken rejected, or no
\* current user), onTokenRefreshFailed is invoked exactly once with an
\* Error, the transport is not called again, and the caller gets the
\* original 401 response.
C10_RefreshFailed ==
    \A r \in Requests :
        (IsUnauthorized(response[r].status)
            /\ freshTokens[r] = <<EmptyString>>) =>
            /\ onTokenRefreshFailedCalls[r] = <<"Error">>
            /\ Len(sent[r]) = 1
            /\ ReturnsOriginal(r)
            /\ pc[r] = "done" =>
                  result[r] = [kind |-> "response",
                               status |-> StatusUnauthorized, ok |-> FALSE,
                               success |-> FALSE, attempt |-> 1]

\* One request's forced getIdToken was rejected, another found no current
\* user; both were told and both got their 401 back.
C10_Witness ==
    /\ \E r \in Requests :
        /\ freshTokens[r] = <<EmptyString>>
        /\ CallsOf(r, TRUE) = 1
        /\ result[r].status = StatusUnauthorized
    /\ \E r \in Requests :
        /\ freshTokens[r] = <<EmptyString>>
        /\ CallsOf(r, TRUE) = 0
        /\ result[r].status = StatusUnauthorized

\* C13: header non-override. When the caller's request carries an
\* Authorization header, no token is requested (no getAuthToken result, no
\* getIdToken(false) call) and the first attempt is sent with exactly the
\* caller's header value.
C13_HeaderNotOverridden ==
    \A r \in Requests :
        (pc[r] # "idle" /\ requestInit[r] # EmptyString) =>
            /\ pc[r] # "getIdToken"
            /\ tokens[r] = << >>
            /\ CallsOf(r, FALSE) = 0
            /\ Len(sent[r]) >= 1
            /\ sent[r][1] = requestInit[r]

\* A request with the caller's own header is on its first attempt while a
\* user is signed in, and no token was requested for it.
C13_Witness ==
    \E r \in Requests :
        /\ pc[r] = "request1"
        /\ auth = "user"
        /\ requestInit[r] = Bearer(<<CustomToken>>)
        /\ sent[r] = <<Bearer(<<CustomToken>>)>>

\* C14: when the initial token request yields no token (getIdToken
\* rejected, or no user signed in) the request is not aborted: the first
\* attempt is still sent, once, and without an Authorization header.
C14_SentWithoutToken ==
    \A r \in Requests :
        tokens[r] = <<EmptyString>> =>
            /\ pc[r] \notin {"idle", "getIdToken"}
            /\ Len(sent[r]) >= 1
            /\ sent[r][1] = EmptyString
            /\ (pc[r] = "request1" => Len(sent[r]) = 1)

\* One request went out without a header after getIdToken was rejected,
\* another because no user was signed in.
C14_Witness ==
    /\ \E r \in Requests :
        /\ tokens[r] = <<EmptyString>>
        /\ CallsOf(r, FALSE) = 1
        /\ sent[r][1] = EmptyString
    /\ \E r \in Requests :
        /\ tokens[r] = <<EmptyString>>
        /\ CallsOf(r, FALSE) = 0
        /\ sent[r][1] = EmptyString

\* C15: session termination is triggered only by a 403 on the first
\* response. A request whose first response is a 401 (refreshed or not),
\* another status, or that got no response at all (transport failure, or
\* not answered yet) never calls signOut nor onLogout.
C15_LogoutOnlyOn403 ==
    \A r \in Requests :
        response[r].status # StatusForbidden =>
            /\ signOutCalls[r] = 0
            /\ signOutResults[r] = << >>
            /\ onLogoutCalls[r] = 0
            /\ pc[r] # "signOut"

\* A 401 whose retry answered 403 and a transport failure both ended
\* without signOut while an auth instance existed.
C15_Witness ==
    /\ auth # "null"
    /\ \E r \in Requests :
        /\ pc[r] = "done"
        /\ IsUnauthorized(response[r].status)
        /\ result[r].status = StatusForbidden
        /\ signOutCalls[r] = 0
    /\ \E r \in Requests :
        /\ result[r].kind = "failure"
        /\ signOutCalls[r] = 0

\* C16: a logical request invokes at most one of onLogout and
\* onTokenRefreshFailed, and that one at most once.
C16_AtMostOneCallback ==
    \A r \in Requests :
        onLogoutCalls[r] + Len(onTokenRefreshFailedCalls[r]) <= 1

\* One request invoked onLogout, another onTokenRefreshFailed.
C16_Witness ==
    /\ \E r \in Requests :
        onLogoutCalls[r] = 1 /\ onTokenRefreshFailedCalls[r] = << >>
    /\ \E r \in Requests :
        onLogoutCalls[r] = 0 /\ Len(onTokenRefreshFailedCalls[r]) = 1

\* C17: a rejection of the first network.request is what the caller gets,
\* unchanged, with no forced refresh, no retry, no signOut and no callback.
C17_TransportFailurePropagates ==
    \A r \in Requests :
        (pc[r] = "done" /\ response[r] = NoResponse) =>
            /\ result[r] = TransportFailure(1)
            /\ Len(sent[r]) = 1
            /\ CallsOf(r, TRUE) = 0
            /\ freshTokens[r] = << >>
            /\ signOutCalls[r] = 0
            /\ onLogoutCalls[r] = 0
            /\ onTokenRefreshFailedCalls[r] = << >>

\* A first attempt was rejected while a user was signed in.
C17_Witness ==
    \E r \in Requests :
        /\ result[r] = TransportFailure(1)
        /\ auth = "user"

\* C18: a first response whose status is neither 401 nor 403 is returned
\* with that status, and the request makes no forced refresh, no second
\* transport call, no signOut and no callback.
C18_OtherStatusPassesThrough ==
    \A r \in Requests :
        (/\ response[r].kind = "response"
         /\ response[r].status \notin {StatusUnauthorized, StatusForbidden}) =>
            /\ ReturnsOriginal(r)
            /\ pc[r] = "done" =>
                  /\ result[r].kind = "response"
                  /\ result[r].status = response[r].status
                  /\ result[r].ok = response[r].ok
                  /\ result[r].attempt = 1
            /\ Len(sent[r]) = 1
            /\ CallsOf(r, TRUE) = 0
            /\ freshTokens[r] = << >>
            /\ signOutCalls[r] = 0
            /\ onLogoutCalls[r] = 0
            /\ onTokenRefreshFailedCalls[r] = << >>

\* A 500 and a 200 were both returned as they came.
C18_Witness ==
    /\ \E r \in Requests :
        result[r].status = StatusServerError /\ ~result[r].ok
    /\ \E r \in Requests :
        result[r].status = StatusOK /\ result[r].ok

\* C19 as the spec states it: a logical request makes at most 2 transport
\* calls and at most 1 provider fetch (getIdToken) call.
C19_AmplificationBound ==
    \A r \in Requests :
        Len(sent[r]) <= 2 /\ Len(getIdTokenCalls[r]) <= 1

\* C19 (amended): a logical request makes at most 2 transport calls and at
\* most 2 getIdToken calls: at most one non-forced call before the first
\* attempt and at most one forced call after a 401, and a retry is sent
\* only after a forced refresh returned.
C19_TwoSendsTwoFetches ==
    \A r \in Requests :
        /\ Len(sent[r]) <= 2
        /\ getIdTokenCalls[r] \in {<< >>, <<FALSE>>, <<TRUE>>, <<FALSE, TRUE>>}
        /\ Len(freshTokens[r]) <= 1
        /\ Len(sent[r]) = 2 => Len(freshTokens[r]) = 1

\* A request that fetched its initial token, was answered 401, refreshed
\* and retried has ended.
C19_Witness ==
    \E r \in Requests :
        /\ pc[r] = "done"
        /\ Len(sent[r]) = 2
        /\ getIdTokenCalls[r] = <<FALSE, TRUE>>

\* C20: termination. Provided every getIdToken, network.request (the
\* Response and its body) and signOut call settles, every request that was
\* issued eventually returns a response or a failure to its caller.
C20_Termination ==
    \A r \in Requests :
        (pc[r] # "idle") ~>
            (pc[r] = "done" /\ result[r].kind \in {"response", "failure"})

\* A request that went through refresh and retry has returned, and one
\* that went through signOut has returned.
C20_Witness ==
    /\ \E r \in Requests :
        pc[r] = "done" /\ Len(sent[r]) = 2 /\ result[r].kind = "response"
    /\ \E r \in Requests :
        pc[r] = "done" /\ signOutResults[r] = <<FALSE>>
                       /\ result[r].kind = "response"

\* Request r got a token from user.getIdToken(false).
FetchedToken(r) ==
    /\ requestInit[r] = EmptyString
    /\ Len(tokens[r]) = 1
    /\ tokens[r][1] \in ProviderTokens

\* Request q, which needs a token, was issued after r's token arrived and
\* less than TTL later.
IssuedWhileFresh(q, r) ==
    /\ q # r
    /\ FetchedToken(r)
    /\ pc[q] # "idle"
    /\ requestInit[q] = EmptyString
    /\ issuedAt[q] > fetchedAt[r]
    /\ issuedAt[q] - fetchedAt[r] < TTL

\* C11: TTL freshness. A request issued less than TTL after a token was
\* fetched makes no getIdToken(false) call and sends that token unchanged
\* on its first attempt; a request issued once TTL has elapsed since the
\* token was fetched makes exactly one getIdToken(false) call.
C11_TTLFreshness ==
    \A q, r \in Requests :
        /\ IssuedWhileFresh(q, r) =>
            /\ CallsOf(q, FALSE) = 0
            /\ Len(sent[q]) >= 1
            /\ sent[q][1] = Bearer(tokens[r][1])
        /\ (/\ q # r
            /\ FetchedToken(r)
            /\ FetchedToken(q)
            /\ issuedAt[q] - fetchedAt[r] >= TTL) =>
                CallsOf(q, FALSE) = 1

\* C12: a non-forced token request that finds a fresh cached token does no
\* I/O: two successful requests, the second issued inside the TTL window
\* of the token the first one fetched, make one getIdToken call between
\* them, the first request's.
C12_CachedTokenNoIO ==
    \A q, r \in Requests :
        (/\ IssuedWhileFresh(q, r)
         /\ pc[r] = "done" /\ result[r].ok /\ Len(sent[r]) = 1
         /\ pc[q] = "done" /\ result[q].ok /\ Len(sent[q]) = 1
         /\ sent[q][1] # EmptyString) =>
            /\ getIdTokenCalls[r] = <<FALSE>>
            /\ getIdTokenCalls[q] = << >>

\* C29: intra-request ordering. The first network.request is called only
\* once injectAuthToken has its answer, with the header built from it; the
\* retry is called only once the forced getIdToken has settled, with the
\* token it gave, and never while that call is pending.
C29_IntraRequestOrdering ==
    \A r \in Requests :
        /\ pc[r] = "getIdToken" => sent[r] = << >> /\ tokens[r] = << >>
        /\ (Len(sent[r]) >= 1 /\ NeedsToken(requestInit[r])) =>
            /\ Len(tokens[r]) = 1
            /\ Fetch(r, FALSE) \notin inFlight
            /\ sent[r][1] = injectAuthToken(requestInit[r], tokens[r][1])
        /\ pc[r] = "refresh" =>
            /\ Len(sent[r]) = 1
            /\ freshTokens[r] = << >>
            /\ Fetch(r, TRUE) \in inFlight
        /\ Len(sent[r]) >= 2 =>
            /\ Len(freshTokens[r]) = 1
            /\ freshTokens[r][1] \in ProviderTokens
            /\ Fetch(r, TRUE) \notin inFlight
            /\ sent[r][2] = Bearer(freshTokens[r][1])

\* A request got its token, sent it, was answered 401, refreshed and has
\* its retry under way.
C29_Witness ==
    \E r \in Requests :
        /\ pc[r] = "request2"
        /\ tokens[r] \in {<<t>> : t \in ProviderTokens}
        /\ sent[r][1] = Bearer(tokens[r][1])
        /\ sent[r][2] = Bearer(freshTokens[r][1])

\* C30: the status of the second attempt is never acted on. A request that
\* retried returns what the retry gave, whatever its status, and has called
\* neither signOut nor onLogout nor onTokenRefreshFailed, and has made one
\* forced getIdToken call only.
C30_RetryStatusIgnored ==
    \A r \in Requests :
        (pc[r] = "done" /\ Len(sent[r]) = 2) =>
            /\ \/ result[r] = TransportFailure(2)
               \/ /\ result[r].kind = "response"
                  /\ result[r].attempt = 2
                  /\ result[r] = parseResponse(Response(result[r].status, 2))
            /\ signOutCalls[r] = 0
            /\ signOutResults[r] = << >>
            /\ onLogoutCalls[r] = 0
            /\ onTokenRefreshFailedCalls[r] = << >>
            /\ CallsOf(r, TRUE) = 1

\* One retry was answered 403 and another 401, with a user signed in, and
\* both were returned.
C30_Witness ==
    /\ auth = "user"
    /\ \E r \in Requests :
        /\ pc[r] = "done" /\ Len(sent[r]) = 2
        /\ result[r].status = StatusForbidden
    /\ \E r \in Requests :
        /\ pc[r] = "done" /\ Len(sent[r]) = 2
        /\ result[r].status = StatusUnauthorized

\* Everything the collaborators gave request r, and how far r got.
Outcomes(r) ==
    <<pc[r], requestInit[r], tokens[r], response[r], freshTokens[r],
      signOutResults[r],
      IF Len(sent[r]) = 2 THEN result[r] ELSE NoResult>>

\* What request r did and returned.
Behaviour(r) ==
    <<sent[r], getIdTokenCalls[r], signOutCalls[r], result[r]>>

\* Requests q and r, both issued, agree on the calls each stage decides,
\* given the same outcomes up to that stage.
SameCalls(q, r) ==
    /\ requestInit[q] = requestInit[r] =>
        CallsOf(q, FALSE) = CallsOf(r, FALSE)
    /\ (/\ requestInit[q] = requestInit[r] /\ tokens[q] = tokens[r]
        /\ Len(sent[q]) >= 1 /\ Len(sent[r]) >= 1) =>
            sent[q][1] = sent[r][1]
    /\ (/\ requestInit[q] = requestInit[r] /\ tokens[q] = tokens[r]
        /\ response[q] = response[r] /\ response[q] # NoResponse) =>
            /\ CallsOf(q, TRUE) = CallsOf(r, TRUE)
            /\ signOutCalls[q] = signOutCalls[r]
    /\ Outcomes(q) = Outcomes(r) => Behaviour(q) = Behaviour(r)

\* C25: callbacks are optional and their absence is a silent no-op. On the
\* same auth state and with the same outcomes of getIdToken, network.request
\* and signOut, a request of a client without a callback makes the same
\* network.request, getIdToken and signOut calls and returns the same
\* result as a request of a client with both callbacks; a callback that is
\* not registered is never invoked and no request ends with an error for
\* the lack of it.
C25_CallbacksOptional ==
    /\ \A q, r \in Requests :
        (pc[q] # "idle" /\ pc[r] # "idle") => SameCalls(q, r)
    /\ \A r \in Requests :
        /\ ~options[r].onLogout => onLogoutCalls[r] = 0
        /\ ~options[r].onTokenRefreshFailed =>
                onTokenRefreshFailedCalls[r] = << >>
        /\ pc[r] = "done" => result[r].kind \in {"response", "failure"}
        /\ result[r].kind = "failure" =>
                result[r] \in {TransportFailure(1), TransportFailure(2)}

\* A client with callbacks and one without both ended a 403 with signOut
\* resolved, and only the first invoked onLogout; in another run both ended
\* a failed refresh and only the first invoked onTokenRefreshFailed.
C25_Witness ==
    \E q, r \in Requests :
        /\ options[q] = AllCallbacks /\ options[r] = NoCallbacks
        /\ pc[q] = "done" /\ Outcomes(q) = Outcomes(r)
        /\ \/ /\ signOutResults[q] = <<TRUE>>
              /\ onLogoutCalls[q] = 1 /\ onLogoutCalls[r] = 0
           \/ /\ freshTokens[q] = <<EmptyString>>
              /\ Len(onTokenRefreshFailedCalls[q]) = 1
              /\ onTokenRefreshFailedCalls[r] = << >>

\* Request r's getIdToken(false) was rejected: getAuthToken gave it ''.
FailedFetch(r) ==
    /\ CallsOf(r, FALSE) = 1
    /\ tokens[r] = <<EmptyString>>

\* C22: a failed provider fetch is never cached. Once a getIdToken(false)
\* call has failed nothing of it stays in flight, and a request issued
\* afterwards without a header of its own, while a user is signed in, calls
\* getIdToken(false) again and waits for its answer.
C22_FailedFetchNotCached ==
    /\ [](\A r \in Requests : FailedFetch(r) => Fetch(r, FALSE) \notin inFlight)
    /\ [][\A q \in Requests :
            (/\ pc[q] = "idle" /\ pc'[q] # "idle"
             /\ requestInit'[q] = EmptyString
             /\ HasUser
             /\ \E r \in Requests \ {q} : FailedFetch(r)) =>
                /\ pc'[q] = "getIdToken"
                /\ getIdTokenCalls'[q] = <<FALSE>>
                /\ Fetch(q, FALSE) \in inFlight'
                /\ sent'[q] = << >>]_vars

\* One request's fetch has failed and the request has ended; another
\* request fetched a token of its own and sent it.
C22_Witness ==
    \E q, r \in Requests :
        /\ FailedFetch(r) /\ pc[r] = "done"
        /\ CallsOf(q, FALSE) = 1
        /\ tokens[q] \in {<<t>> : t \in ProviderTokens}
        /\ sent[q][1] = Bearer(tokens[q][1])

\* The calls of initializeFirebaseAuth so far, in order.
InitCalls == 1..Len(initLog)

\* C27: initializeFirebaseAuth is idempotent in its instances: once a call has
\* returned, every later call returns too, with the same app and the same auth
\* instance, and makes no further initializeApp or getAuth call.
C27_IdempotentInstances ==
    \A i, j \in InitCalls :
        (i < j /\ initLog[i].outcome = "returned") =>
            /\ initLog[j].outcome = "returned"
            /\ initLog[j].app = initLog[i].app
            /\ initLog[j].auth = initLog[i].auth
            /\ initLog[j].initializeAppCalls = initLog[i].initializeAppCalls
            /\ initLog[j].getAuthCalls = initLog[i].getAuthCalls
            /\ firebaseApp = initLog[i].app
            /\ firebaseAuth = initLog[i].auth

\* C27 witness: a web module initialised with a complete config and called
\* twice more, once with another config and once with an incomplete one.
C27_Witness ==
    /\ variant = "web"
    /\ Len(initLog) = 3
    /\ initLog[1].outcome = "returned"
    /\ initLog[1].config = <<ConfigA>>
    /\ initLog[2].config = <<ConfigB>>
    /\ initLog[3].config = <<ConfigIncomplete>>
    /\ initLog[3].app = initLog[1].app
    /\ initLog[3].app # 0

\* C28: a call of initializeFirebaseAuth(options) on a module that is already
\* initialised with a different config throws.
C28_ThrowsOnDifferentConfig ==
    \A i, j \in InitCalls :
        (/\ variant = "web"
         /\ i < j
         /\ initLog[i].outcome = "returned"
         /\ ~initLog[i].alreadyInitialized
         /\ initLog[j].config # initLog[i].config) =>
            initLog[j].outcome = "threw"

\* C24: a 401 invalidates the cached token. When the first attempt of a
\* request was sent with a provider token that is still inside its TTL
\* window and is answered 401 while the user is signed in, the request calls
\* user.getIdToken once more, with forceRefresh set, before anything else
\* is sent; and the retry of such a request carries the token that call
\* returned, whatever token the first attempt carried.
C24_UnauthorizedBypassesCache ==
    /\ [][\A q \in Requests :
            (/\ pc[q] = "request1"
             /\ FetchedToken(q)
             /\ sent[q] = <<Bearer(tokens[q][1])>>
             /\ now - fetchedAt[q] < TTL
             /\ HasUser
             /\ response'[q] = Response(StatusUnauthorized, 1)) =>
                /\ getIdTokenCalls'[q] = <<FALSE, TRUE>>
                /\ Fetch(q, TRUE) \in inFlight'
                /\ pc'[q] = "refresh"
                /\ sent'[q] = sent[q]]_vars
    /\ [](\A q \in Requests :
            (FetchedToken(q) /\ Len(sent[q]) = 2) =>
                /\ getIdTokenCalls[q] = <<FALSE, TRUE>>
                /\ Len(freshTokens[q]) = 1
                /\ freshTokens[q][1] \in ProviderTokens
                /\ sent[q][2] = Bearer(freshTokens[q][1]))

\* C24 witness: T1 was fetched at 0 by one request; another, issued at
\* 120000, inside the TTL window, was sent with T1 too, got a 401, called
\* getIdToken(true), was given T2 and sent its retry with T2.
C24_Witness ==
    \E q, r \in Requests :
        /\ IssuedWhileFresh(q, r)
        /\ fetchedAt[r] = 0 /\ tokens[r] = << <<1>> >>
        /\ issuedAt[q] = TickMs
        /\ sent[q] = <<Bearer(<<1>>), Bearer(<<2>>)>>
        /\ response[q] = Response(StatusUnauthorized, 1)
        /\ getIdTokenCalls[q] = <<FALSE, TRUE>>
        /\ freshTokens[q] = << <<2>> >>
        /\ now - fetchedAt[q] < TTL

\* C21 as stated: cancelling a request prevents its pending retry from being
\* sent. A request whose signal was aborted before the retry was handed to
\* the transport never calls network.request a second time.
C21_CancelPreventsRetry ==
    \A r \in Requests :
        abortedIn[r] \in {"getIdToken", "request1", "refresh"} =>
            Len(sent[r]) <= 1

\* C21: cancellation is left to the transport and touches no token fetch.
\* The signal goes to the transport with both attempts, so a request aborted
\* before its first network.request settled ends with that call's rejection,
\* without refresh or retry; a request aborted during the forced refresh
\* still hands its retry to the transport and ends with the retry's
\* rejection (or with the 401 when the refresh gave no token); a request
\* aborted during the retry ends with the retry's rejection.  Aborting
\* leaves every pending getIdToken call pending, the request's own included.
C21_CancellationLeftToTransport ==
    /\ [](\A r \in Requests :
            pc[r] = "done" =>
                /\ abortedIn[r] \in {"getIdToken", "request1"} =>
                    /\ result[r] = TransportFailure(1)
                    /\ Len(sent[r]) = 1
                    /\ CallsOf(r, TRUE) = 0
                /\ abortedIn[r] = "refresh" =>
                    \/ /\ Len(sent[r]) = 2
                       /\ result[r] = TransportFailure(2)
                    \/ /\ Len(sent[r]) = 1
                       /\ freshTokens[r] = <<EmptyString>>
                       /\ result[r] = parseResponse(response[r])
                /\ abortedIn[r] = "request2" =>
                    result[r] = TransportFailure(2))
    /\ [][\A r \in Requests :
            abortedIn'[r] # abortedIn[r] =>
                /\ inFlight' = inFlight
                /\ getIdTokenCalls' = getIdTokenCalls
                /\ tokens' = tokens
                /\ pc' = pc
                /\ sent' = sent]_vars

\* C21 witness: a request aborted during its forced refresh handed its retry
\* to the transport and ended with the retry's rejection, while the other
\* request, not aborted, got its token and a successful response.
C21_Witness ==
    \E q, r \in Requests :
        /\ q # r
        /\ abortedIn[r] = "refresh" /\ abortedIn[q] = "none"
        /\ pc[r] = "done" /\ Len(sent[r]) = 2
        /\ result[r] = TransportFailure(2)
        /\ pc[q] = "done" /\ result[q].ok /\ FetchedToken(q)

\* C26: the web FirebaseAuthNetworkService does not log the user out on
\* 403. A request whose super.request failed with status 403 calls neither
\* signOut nor onLogout.
C26_NoLogoutOn403 ==
    \A r \in Requests :
        (/\ response[r].kind = "networkError"
         /\ response[r].status = StatusForbidden) =>
            /\ signOutCalls[r] = 0
            /\ onLogoutCalls[r] = 0

\* Request r starts its forced refresh in this step.
StartsRefresh(r) == pc[r] = "request1" /\ pc'[r] = "refresh"

\* C31 as stated: a forced token request that arrives while another fetch
\* is in flight starts no fetch of its own.
C31_ForcedJoinsInFlight ==
    [][\A r \in Requests :
        (StartsRefresh(r) /\ inFlight # {}) => inFlight' = inFlight]_vars

\* C31 (amended): a forced token request that arrives while another fetch is
\* in flight, forced or not, starts its own getIdToken(true) call next to it
\* and gets that call's result: the pending fetches stay as they are, and
\* when the forced call settles only its own request receives a token.
C31_ForcedStartsOwnFetch ==
    [][\A r \in Requests :
        /\ StartsRefresh(r) =>
            /\ Fetch(r, TRUE) \notin inFlight
            /\ inFlight' = inFlight \cup {Fetch(r, TRUE)}
            /\ getIdTokenCalls'[r] = Append(getIdTokenCalls[r], TRUE)
        /\ (pc[r] = "refresh" /\ pc'[r] # "refresh") =>
            /\ inFlight' = inFlight \ {Fetch(r, TRUE)}
            /\ Len(freshTokens'[r]) = Len(freshTokens[r]) + 1
            /\ \A q \in Requests \ {r} :
                /\ freshTokens'[q] = freshTokens[q]
                /\ tokens'[q] = tokens[q]
                /\ pc'[q] = pc[q]]_vars

\* C31 witness: a forced refresh and another request's non-forced fetch are
\* in flight side by side, each called by its own request.
C31_Witness ==
    \E q, r \in Requests :
        /\ pc[r] = "refresh" /\ pc[q] = "getIdToken"
        /\ inFlight = {Fetch(r, TRUE), Fetch(q, FALSE)}
        /\ getIdTokenCalls[q] = <<FALSE>>
        /\ getIdTokenCalls[r][Len(getIdTokenCalls[r])] = TRUE

\* C32: a fetch that completes leaves no in-flight marker, and the token of
\* a successful fetch is stored: a request that needs a token and is issued
\* within TTL of that fetch is served the stored token, without waiting for
\* the provider, and sends it on its first attempt.
C32_FetchedTokenServed ==
    /\ \A r \in Requests :
        pc[r] \notin {"getIdToken", "refresh"} => OwnFetches(r) = {}
    /\ \A q, r \in Requests :
        IssuedWhileFresh(q, r) =>
            /\ pc[q] # "getIdToken"
            /\ Fetch(q, FALSE) \notin inFlight
            /\ sent[q] # << >>
            /\ sent[q][1] = Bearer(tokens[r][1])

\* C33: the retry after a 401 carries the refreshed token whatever the
\* caller supplied. A request whose first attempt went out with the caller's
\* own Authorization header is refreshed and retried on a 401 like any
\* other, by a forced getIdToken call that is its only provider call, and
\* its retry carries Bearer <fresh token> in place of the caller's header.
C33_RetryReplacesCallerHeader ==
    \A r \in Requests :
        (requestInit[r] # EmptyString /\ sent[r] # << >>) =>
            /\ sent[r][1] = requestInit[r]
            /\ (pc[r] = "done" /\ response[r].kind = "response"
                    /\ IsUnauthorized(response[r].status)) =>
                    /\ Len(freshTokens[r]) = 1
                    /\ Len(sent[r]) = 2 <=> freshTokens[r][1] # EmptyString
            /\ Len(sent[r]) = 2 =>
                    /\ getIdTokenCalls[r] = <<TRUE>>
                    /\ freshTokens[r][1] \in ProviderTokens
                    /\ sent[r][2] = Bearer(freshTokens[r][1])
                    /\ sent[r][2] # requestInit[r]

\* C33 witness: a request sent with the caller's credential got a 401 and
\* was retried with the refreshed token.
C33_Witness ==
    \E r \in Requests :
        /\ requestInit[r] = Bearer(<<CustomToken>>)
        /\ pc[r] = "done"
        /\ IsUnauthorized(response[r].status)
        /\ sent[r] = <<Bearer(<<CustomToken>>), Bearer(freshTokens[r][1])>>
        /\ result[r].attempt = 2

\* C34: what the throwing web service re-throws. An error without a status
\* is re-thrown as it is, with no refresh and no logout; after a 401 whose
\* refresh gave no token and after a 403 the original error is re-thrown;
\* after a 401 that was retried the retry's own outcome, its error included,
\* is what the caller gets; super.request is called at most twice.
C34_ServiceRethrows ==
    \A r \in Requests :
        /\ Len(sent[r]) <= 2
        /\ Len(sent[r]) = 2 =>
            /\ HasStatus(response[r])
            /\ IsUnauthorized(response[r].status)
        /\ pc[r] = "done" =>
            /\ ~HasStatus(response[r]) /\ response[r].kind # "response" =>
                /\ result[r] = response[r]
                /\ result[r] = TransportFailure(1)
                /\ Len(sent[r]) = 1
                /\ getIdTokenCalls[r] = << >>
                /\ signOutCalls[r] = 0
                /\ onLogoutCalls[r] = 0
                /\ onTokenRefreshFailedCalls[r] = << >>
            /\ (HasStatus(response[r]) /\ IsUnauthorized(response[r].status)
                    /\ freshTokens[r] = <<EmptyString>>) =>
                /\ result[r] = response[r]
                /\ Len(sent[r]) = 1
            /\ (HasStatus(response[r]) /\ IsForbidden(response[r].status)) =>
                /\ result[r] = response[r]
                /\ Len(sent[r]) = 1
            /\ Len(sent[r]) = 2 =>
                /\ result[r] \in ServiceOutcomes(2)
                /\ result[r] # response[r]

\* C34 witness: a 401 was refreshed and retried, the retry failed too, and
\* the caller got the retry's error; another request's 403 was re-thrown
\* after the logout.
C34_Witness ==
    \E q, r \in Requests :
        /\ pc[r] = "done"
        /\ response[r] = NetworkError(StatusUnauthorized, 1)
        /\ result[r] = NetworkError(StatusServerError, 2)
        /\ pc[q] = "done"
        /\ response[q] = NetworkError(StatusForbidden, 1)
        /\ signOutCalls[q] = 1
        /\ result[q] = response[q]

\* Where a request stands, whichever implementation runs it.
Stage(r) ==
    CASE pc[r] = "responseRequest1" -> "request1"
      [] pc[r] = "responseRefresh" -> "refresh"
      [] pc[r] = "responseRequest2" -> "request2"
      [] pc[r] = "responseSignOut" -> "signOut"
      [] OTHER -> pc[r]

\* The status a caller reads from what it was given (0 for a rejection).
Returned(r) == <<result[r].kind, result[r].status, result[r].attempt>>

\* Everything the transport, the provider and signOut gave request r.
Given(r) ==
    <<Stage(r), requestInit[r], response[r], freshTokens[r],
      signOutResults[r],
      IF Len(sent[r]) = 2 /\ pc[r] = "done" THEN Returned(r) ELSE << >> >>

\* Everything request r did.
Did(r) ==
    <<sent[r], getIdTokenCalls[r], signOutCalls[r], onLogoutCalls[r],
      onTokenRefreshFailedCalls[r], Returned(r)>>

\* C35: the Response-based FirebaseAuthNetworkService.request (React
\* Native and web copies) and the hook client's executeWithRetry apply the
\* same 401/403 policy. For a request that carries the caller's
\* Authorization header, in one application and with the same outcomes of
\* the transport, of getIdToken and of signOut, both make the same
\* transport calls, forced getIdToken calls and signOut calls, invoke the
\* same callbacks and return the same status.
C35_SamePolicy ==
    \A r \in Requests \ {HookRequest} :
        (/\ pc[HookRequest] # "idle" /\ pc[r] # "idle"
         /\ requestInit[HookRequest] # EmptyString
         /\ requestInit[r] = requestInit[HookRequest]) =>
            /\ sent[r][1] = sent[HookRequest][1]
            /\ getIdTokenCalls[HookRequest] \in {<< >>, <<TRUE>>}
            /\ (response[r] = response[HookRequest]
                    /\ response[r] # NoResponse) =>
                    /\ getIdTokenCalls[r] = getIdTokenCalls[HookRequest]
                    /\ signOutCalls[r] = signOutCalls[HookRequest]
            /\ Given(r) = Given(HookRequest) => Did(r) = Did(HookRequest)

\* The sum of calls[r] over the requests in S.
RECURSIVE SumCalls(_, _)
SumCalls(calls, S) ==
    IF S = {} THEN 0
    ELSE LET r == CHOOSE x \in S : TRUE
         IN  calls[r] + SumCalls(calls, S \ {r})

\* The requests whose first response is 403 and has been handled.
Forbidden403 ==
    {r \in Requests : pc[r] \in {"signOut", "parse", "done"}
                        /\ IsForbidden(response[r].status)}

\* C36 as stated: when K requests each received 403, signOut was called K
\* times.
C36_SignOutPerForbidden ==
    SumCalls(signOutCalls, Requests) = Cardinality(Forbidden403)

\* C36 (amended): logout is not de-duplicated across requests. Every request
\* that receives 403 while an auth instance exists calls signOut itself,
\* whatever the other requests have called or are awaiting, and invokes
\* onLogout once if its own signOut succeeded: the signOut calls add up to
\* one per such request and the onLogout invocations to one per request
\* whose signOut succeeded, while no request invokes onLogout twice.
C36_LogoutNotDeduplicated ==
    /\ [](/\ \A r \in Requests : onLogoutCalls[r] <= 1 /\ signOutCalls[r] <= 1
          /\ SumCalls(signOutCalls, Requests) <= Cardinality(Forbidden403)
          /\ SumCalls(onLogoutCalls, Requests) =
                Cardinality({r \in Requests : signOutResults[r] = <<TRUE>>}))
    /\ [][\A r \in Requests :
            (/\ pc[r] = "request1" /\ pc'[r] # "request1"
             /\ response'[r].kind = "response"
             /\ IsForbidden(response'[r].status)
             /\ HasAuth) =>
                /\ signOutCalls'[r] = 1
                /\ pc'[r] = "signOut"
                /\ SumCalls(signOutCalls', Requests) =
                        SumCalls(signOutCalls, Requests) + 1]_vars

\* C36 witness: two requests got 403 at the same time, each called signOut,
\* both calls succeeded and onLogout was invoked twice, once by each.
C36_Witness ==
    /\ Cardinality(Forbidden403) >= 2
    /\ \A r \in Forbidden403 :
        /\ pc[r] = "done"
        /\ signOutCalls[r] = 1
        /\ signOutResults[r] = <<TRUE>>
        /\ onLogoutCalls[r] = 1
    /\ SumCalls(signOutCalls, Requests) = Cardinality(Forbidden403)
    /\ SumCalls(onLogoutCalls, Requests) >= 2

\* C37: the auth-state-change listener is registered at most once, whatever
\* the sequence of initializeFirebaseAuth calls: no registration before a
\* call has returned, exactly one from the first call that returned on.
C37_ListenerRegisteredOnce ==
    /\ listeners <= 1
    /\ \A i \in InitCalls :
        /\ initLog[i].listeners = IF \E j \in 1..i :
                                        initLog[j].outcome = "returned"
                                  THEN 1 ELSE 0
    /\ listeners = IF \E i \in InitCalls : initLog[i].outcome = "returned"
                   THEN 1 ELSE 0

\* C37 witness: three calls returned, in the React Native module, with one
\* listener registered.
C37_Witness ==
    /\ variant = "rn"
    /\ Len(initLog) >= 3
    /\ \A i \in 1..3 : initLog[i].outcome = "returned"
    /\ initialized
    /\ listeners = 1

\* The calls that returned.
Succeeded == {i \in InitCalls : initLog[i].outcome = "returned"}

\* C38: a failed initializeFirebaseAuth of the web modules throws and leaves
\* the singletons uninitialised. A call with an incomplete config on a
\* module not yet initialised throws; a call that throws returns no
\* instance; getFirebaseApp() and getFirebaseAuth() are null as long as no
\* call has returned, and from the first call that returned they are the
\* non-null instances that call returned, whatever fails or succeeds later.
C38_FailureLeavesUninitialised ==
    variant \in {"web", "di_web"} =>
        /\ \A i \in InitCalls :
            /\ (/\ initLog[i].config = <<ConfigIncomplete>>
                /\ ~initLog[i].alreadyInitialized) =>
                    initLog[i].outcome = "threw"
            /\ initLog[i].outcome = "threw" =>
                /\ initLog[i].app = 0 /\ initLog[i].auth = 0
                /\ ~initLog[i].alreadyInitialized
                /\ \A j \in 1..i : initLog[j].outcome = "threw"
        /\ Succeeded = {} => firebaseApp = 0 /\ firebaseAuth = 0
        /\ \A i \in Succeeded :
            /\ initLog[i].app # 0 /\ initLog[i].auth # 0
            /\ firebaseApp = initLog[i].app
            /\ firebaseAuth = initLog[i].auth

\* C38 witness: a call failed, in each web module, leaving nothing behind;
\* and after a failed call a later one succeeded and set both singletons.
C38_Witness ==
    /\ variant \in {"web", "di_web"}
    /\ Len(initLog) >= 3
    /\ initLog[1].outcome = "threw"
    /\ initLog[2].outcome = "threw"
    /\ initLog[3].outcome = "returned"
    /\ firebaseApp # 0 /\ firebaseAuth # 0

\* getFirebaseConfig() of the configurable web module.
getFirebaseConfig == firebaseConfig

\* C39: in the configurable web module getFirebaseConfig() returns the
\* config passed to the most recent initializeFirebaseAuth call, whether
\* that call returned new instances, returned the existing ones or threw
\* (null before any call), while getFirebaseApp() and getFirebaseAuth() stay
\* the instances created by the first call that returned.
C39_ConfigOfMostRecentCall ==
    variant = "web" =>
        /\ InitCalls = {} => getFirebaseConfig = << >>
        /\ InitCalls # {} =>
            getFirebaseConfig = initLog[Len(initLog)].config
        /\ \A i \in Succeeded :
            (\A j \in 1..(i - 1) : initLog[j].outcome = "threw") =>
                /\ firebaseApp = initLog[i].app
                /\ firebaseAuth = initLog[i].auth

\* C39 witness: the module was initialised with one config, then called
\* with a different complete config and with an incomplete one; the config
\* reported is the last one and the instances are those of the first call.
C39_Witness ==
    /\ variant = "web"
    /\ Len(initLog) = 3
    /\ initLog[1].config = <<ConfigA>> /\ initLog[1].outcome = "returned"
    /\ initLog[2].config = <<ConfigB>> /\ initLog[2].outcome = "returned"
    /\ initLog[3].config = <<ConfigIncomplete>>
    /\ initLog[3].alreadyInitialized
    /\ getFirebaseConfig = <<ConfigIncomplete>>
    /\ firebaseApp = initLog[1].app /\ firebaseApp # 0
    /\ firebaseAuth = initLog[1].auth

====
